---- MODULE Spec2Model ----
(***************************************************************************)
(* Verification model of quipper (perf_data_converter): the perf.data      *)
(* reader/writer (perf_reader.cc), the serializer's sample-info reader     *)
(* lookup (perf_serializer.cc) and the parser's address mapping as it is   *)
(* exercised by perf_parser_test.cc.                                       *)
(*                                                                         *)
(* The module holds several specifications, one per component.  Each one   *)
(* drives its own group of variables and leaves the other groups at their  *)
(* initial value.                                                          *)
(***************************************************************************)
EXTENDS Integers, Sequences, FiniteSets, TLC

VARIABLES
  \* ---- PerfSerializer (perf_serializer.cc) ----
  serializer_,     \* sample_info_reader_map_, sample_event_id_pos_, other_event_id_pos_
  file_attrs,      \* proto_->file_attrs(), in registration order
  attr_ok,         \* FALSE once AddPerfFileAttr has returned false
  lookup,          \* result of the last GetSampleInfoReaderForEvent call
  \* ---- PerfReader event list and time sort (perf_reader.cc) ----
  events,          \* proto_->events() of the reader
  sort_attrs,      \* sample_type of each proto_->file_attrs() entry
  events_before,   \* the event list as it was when the last sort was entered
  parsed_events,   \* PerfParser::parsed_events()
  sort_pc,         \* "reading", "sorted", "parsed" or "parsed_sorted"
  \* ---- PerfParser address mapping (exercised by perf_parser_test.cc) ----
  do_remap,        \* PerfParserOptions::do_remap
  parser_events,   \* parsed events: the raw event and what the parser stamped
  process_mappers_,\* pid -> set of live mapping pieces
  remap_next,      \* pid -> running length of the mappings remapped so far
  stats,           \* PerfEventStats
  \* ---- PerfReader read / write (perf_reader.cc) ----
  bytes,           \* the input perf.data contents
  reader,          \* the PerfReader after ReadFromData(bytes)
  written,         \* result of WriteToVector on that reader
  reader2,         \* a second PerfReader after ReadFromData(written)
  reader_pc,       \* "start", "read", "written" or "reread"
  \* ---- build id strings (perf_buildid) ----
  build_id_string, \* the string handed to TrimZeroesFromBuildIDString
  trimmed,         \* the string after the first call
  trimmed_twice,   \* the string after a second call on the result
  buildid_pc,      \* "start", "trimmed" or "trimmed_twice"
  \* ---- PerfParser huge page deduction and combining of mappings ----
  hp_input,        \* the MMAP events of the reader, in event order
  hp_deduced,      \* the MMAP events after DeduceHugePages (or as read)
  hp_combined,     \* the MMAP events after CombineMappings
  hp_num_mmap_events, \* stats().num_mmap_events
  hp_pc,           \* "start", "deduced", "combined" or "parsed"
  store_proto,      \* events, build IDs and metadata mask of a reader's proto_
  store_before,     \* store_proto as it was before the last call
  store_call,       \* the last call on the reader and its argument
  layout_file,      \* a normal-mode input: buffer size, header sections, event headers
  layout_read,      \* outcome of reading it
  pipe_reader,      \* the PerfReader while it reads a piped stream
  pipe_before,      \* the PerfReader before the last record
  pipe_record,      \* the last record read
  pipe_n,           \* number of records read
  pipe_pc,          \* "reading", or "done" after ReadPipedData returned
  at_table,         \* a file with an attrs section
  at_starts,        \* where ReadAttrsSection started to read each attr
  at_block,         \* a piped HEADER_ATTR record
  at_result,        \* what ReadAttrEventBlock did with it
  ap_attr,          \* a perf_event_attr
  ap_proto,         \* a PerfDataProto_PerfEventAttr
  ap_attr2,         \* the perf_event_attr deserialized from ap_proto
  ap_pc,            \* "start", "serialized" or "deserialized"
  wd_event,         \* an event of the proto
  wd_written,       \* what WriteData did with it
  wd_pc             \* "read", "changed" or "written"

serVars == <<serializer_, file_attrs, attr_ok, lookup>>
sortVars == <<events, sort_attrs, events_before, parsed_events, sort_pc>>
parserVars == <<do_remap, parser_events, process_mappers_, remap_next, stats>>
readerVars == <<bytes, reader, written, reader2, reader_pc>>
buildIdVars == <<build_id_string, trimmed, trimmed_twice, buildid_pc>>
hugePageVars == <<hp_input, hp_deduced, hp_combined, hp_num_mmap_events, hp_pc>>
storeVars == <<store_proto, store_before, store_call>>
layoutVars == <<layout_file, layout_read>>
pipedVars == <<pipe_reader, pipe_before, pipe_record, pipe_n, pipe_pc>>
attrBytesVars == <<at_table, at_starts, at_block, at_result>>
attrProtoVars == <<ap_attr, ap_proto, ap_attr2, ap_pc>>
writeDataVars == <<wd_event, wd_written, wd_pc>>

vars == <<serVars, sortVars, parserVars, readerVars, buildIdVars, hugePageVars, storeVars, layoutVars, pipedVars, attrBytesVars, attrProtoVars, writeDataVars>>

nonSerVars == <<sortVars, parserVars, readerVars, buildIdVars, hugePageVars, storeVars, layoutVars, pipedVars, attrBytesVars, attrProtoVars, writeDataVars>>
nonSortVars == <<serVars, parserVars, readerVars, buildIdVars, hugePageVars, storeVars, layoutVars, pipedVars, attrBytesVars, attrProtoVars, writeDataVars>>
nonParserVars == <<serVars, sortVars, readerVars, buildIdVars, hugePageVars, storeVars, layoutVars, pipedVars, attrBytesVars, attrProtoVars, writeDataVars>>
nonReaderVars == <<serVars, sortVars, parserVars, buildIdVars, hugePageVars, storeVars, layoutVars, pipedVars, attrBytesVars, attrProtoVars, writeDataVars>>
nonBuildIdVars == <<serVars, sortVars, parserVars, readerVars, hugePageVars, storeVars, layoutVars, pipedVars, attrBytesVars, attrProtoVars, writeDataVars>>
nonHugePageVars == <<serVars, sortVars, parserVars, readerVars, buildIdVars, storeVars, layoutVars, pipedVars, attrBytesVars, attrProtoVars, writeDataVars>>
nonStoreVars == <<serVars, sortVars, parserVars, readerVars, buildIdVars, hugePageVars, layoutVars, pipedVars, attrBytesVars, attrProtoVars, writeDataVars>>
nonLayoutVars == <<serVars, sortVars, parserVars, readerVars, buildIdVars, hugePageVars, storeVars, pipedVars, attrBytesVars, attrProtoVars, writeDataVars>>
nonPipedVars == <<serVars, sortVars, parserVars, readerVars, buildIdVars, hugePageVars, storeVars, layoutVars, attrBytesVars, attrProtoVars, writeDataVars>>
nonAttrBytesVars == <<serVars, sortVars, parserVars, readerVars, buildIdVars, hugePageVars, storeVars, layoutVars, pipedVars, attrProtoVars, writeDataVars>>
nonAttrProtoVars == <<serVars, sortVars, parserVars, readerVars, buildIdVars, hugePageVars, storeVars, layoutVars, pipedVars, attrBytesVars, writeDataVars>>
nonWriteDataVars == <<serVars, sortVars, parserVars, readerVars, buildIdVars, hugePageVars, storeVars, layoutVars, pipedVars, attrBytesVars, attrProtoVars>>

----------------------------------------------------------------------------
(* Generic helpers *)

Min(S) == CHOOSE x \in S : \A y \in S : x <= y

Max(S) == CHOOSE x \in S : \A y \in S : y <= x

Range(s) == { s[i] : i \in 1..Len(s) }

\* Length of a string with its terminator, padded to a multiple of 8 bytes.
GetUint64AlignedStringLength(size) == ((size + 1 + 7) \div 8) * 8

RECURSIVE SumSeq(_)
SumSeq(s) == IF s = <<>> THEN 0 ELSE Head(s) + SumSeq(Tail(s))

BoolToNat(b) == IF b THEN 1 ELSE 0

----------------------------------------------------------------------------
(* PerfSerializer: sample info readers and event id positions *)

\* EventIdPosition values: Uninitialized, NotPresent, or an index.
Uninitialized == [kind |-> "Uninitialized", pos |-> 0]
NotPresent == [kind |-> "NotPresent", pos |-> 0]
At(n) == [kind |-> "At", pos |-> n]

\* A freshly constructed PerfSerializer.
NewSerializer ==
  [ sample_info_reader_map_ |-> {},
    sample_event_id_pos_ |-> Uninitialized,
    other_event_id_pos_ |-> Uninitialized ]

NoReader == [found |-> FALSE, id |-> 0, sample_type |-> {}]

\* std::map keys of sample_info_reader_map_.
ReaderIds(ser) == { e.id : e \in ser.sample_info_reader_map_ }

ReaderAt(ser, id) == CHOOSE e \in ser.sample_info_reader_map_ : e.id = id

SampleInfoReaderAvailable(ser) == ser.sample_info_reader_map_ # {}

\* The position of the id counted from 1 instead of from 0.
NewSampleEventIdPos_PlusOne(sample_type) ==
  IF "IDENTIFIER" \in sample_type THEN At(0)
  ELSE IF "ID" \in sample_type
       THEN At(1 + BoolToNat("IP" \in sample_type) + BoolToNat("TID" \in sample_type)
                 + BoolToNat("TIME" \in sample_type) + BoolToNat("ADDR" \in sample_type))
       ELSE NotPresent

\* Positions of the event id implied by one attr's sample_type.
NewSampleEventIdPos(sample_type) ==
  IF "IDENTIFIER" \in sample_type THEN At(0)
  ELSE IF "ID" \in sample_type
       THEN At(BoolToNat("IP" \in sample_type) + BoolToNat("TID" \in sample_type)
               + BoolToNat("TIME" \in sample_type) + BoolToNat("ADDR" \in sample_type))
       ELSE NotPresent

NewOtherEventIdPos(sample_type) ==
  IF "IDENTIFIER" \in sample_type THEN At(1)
  ELSE IF "ID" \in sample_type
       THEN At(1 + BoolToNat("CPU" \in sample_type)
                 + BoolToNat("STREAM_ID" \in sample_type))
       ELSE NotPresent

\* Returns [ok, ser]: the positions are fixed by the first attr, a later
\* attr with different positions is an error.
UpdateEventIdPositions(ser, attr) ==
  LET ns == NewSampleEventIdPos(attr.sample_type)
      no == NewOtherEventIdPos(attr.sample_type)
  IN  IF ser.sample_event_id_pos_ = Uninitialized
      THEN LET s1 == [ser EXCEPT !.sample_event_id_pos_ = ns]
           IN  IF s1.other_event_id_pos_ = Uninitialized
               THEN [ok |-> TRUE, ser |-> [s1 EXCEPT !.other_event_id_pos_ = no]]
               ELSE [ok |-> (no = s1.other_event_id_pos_), ser |-> s1]
      ELSE IF ns # ser.sample_event_id_pos_
           THEN [ok |-> FALSE, ser |-> ser]
           ELSE IF ser.other_event_id_pos_ = Uninitialized
                THEN [ok |-> TRUE, ser |-> [ser EXCEPT !.other_event_id_pos_ = no]]
                ELSE [ok |-> (no = ser.other_event_id_pos_), ser |-> ser]

\* One reader per id of the attr (id 0 when the attr has no ids).
CreateSampleInfoReader(ser, attr) ==
  LET ids == IF attr.ids = <<>> THEN {0} ELSE Range(attr.ids)
      kept == { e \in ser.sample_info_reader_map_ : e.id \notin ids }
      added == { [id |-> i, sample_type |-> attr.sample_type,
                  sample_id_all |-> attr.sample_id_all] : i \in ids }
  IN  UpdateEventIdPositions(
        [ser EXCEPT !.sample_info_reader_map_ = kept \cup added], attr)

\* Event types SampleInfoReader can attach a sample_id trailer to.
IsSupportedEventType(type) ==
  type \in {"PERF_RECORD_SAMPLE", "PERF_RECORD_MMAP", "PERF_RECORD_MMAP2",
            "PERF_RECORD_COMM", "PERF_RECORD_FORK", "PERF_RECORD_EXIT"}

ContainsSampleInfo(ser, type) ==
  IF type = "PERF_RECORD_SAMPLE" THEN TRUE
  ELSE IF ~IsSupportedEventType(type) THEN FALSE
  ELSE /\ ser.sample_info_reader_map_ # {}
       /\ ReaderAt(ser, Min(ReaderIds(ser))).sample_id_all

GetSampleInfoReaderForId(ser, id) ==
  IF id # 0
  THEN IF id \in ReaderIds(ser)
       THEN [found |-> TRUE, id |-> id, sample_type |-> ReaderAt(ser, id).sample_type]
       ELSE NoReader
  ELSE IF ser.sample_info_reader_map_ = {}
       THEN NoReader
       ELSE LET first == ReaderAt(ser, Min(ReaderIds(ser)))
            IN  [found |-> TRUE, id |-> first.id, sample_type |-> first.sample_type]

\* event.array is the sample info data array that follows the fixed payload.
GetSampleInfoReaderForEvent(ser, event) ==
  LET event_id_pos ==
        IF event.type = "PERF_RECORD_SAMPLE" THEN ser.sample_event_id_pos_
        ELSE IF ContainsSampleInfo(ser, event.type) THEN ser.other_event_id_pos_
        ELSE NotPresent
      array_size == Len(event.array)
  IN  IF event_id_pos = Uninitialized THEN NoReader
      ELSE IF event_id_pos = NotPresent THEN GetSampleInfoReaderForId(ser, 0)
      ELSE IF array_size = 0 THEN NoReader
      ELSE IF event.type = "PERF_RECORD_SAMPLE"
           THEN IF array_size <= event_id_pos.pos THEN NoReader
                ELSE GetSampleInfoReaderForId(ser, event.array[event_id_pos.pos + 1])
           ELSE IF array_size < event_id_pos.pos THEN NoReader
                ELSE GetSampleInfoReaderForId(
                       ser, event.array[array_size - event_id_pos.pos + 1])

----------------------------------------------------------------------------
(* Specification SpecSerializer: attrs are registered one by one, as        *)
(* ReadAttr / ReadAttrEventBlock do through AddPerfFileAttr, and events are *)
(* matched to a sample info reader.                                         *)

MaxAttrs == 2
MaxId == 2

SampleTypes ==
  { {"IP", "TID"}, {"IP", "TID", "TIME"}, {"IP", "TID", "ID"},
    {"IP", "TID", "TIME", "ID", "CPU"}, {"IDENTIFIER", "IP", "TID"},
    {"ID"}, {"IP", "TID", "TIME", "ADDR", "ID", "CPU", "STREAM_ID"} }

AttrIds == { <<>> } \cup { <<i>> : i \in 1..MaxId } \cup { <<1, 2>> }

Attrs ==
  { [sample_type |-> st, ids |-> ids, sample_id_all |-> sia] :
      st \in SampleTypes, ids \in AttrIds, sia \in BOOLEAN }

SampleArrays ==
  { <<>> } \cup { <<a>> : a \in 0..MaxId } \cup
  { <<a, b>> : a \in 0..MaxId, b \in 0..MaxId } \cup
  { <<a, b, c>> : a \in {0}, b \in {0}, c \in 0..MaxId }

SerEvents ==
  { [type |-> t, array |-> a] :
      t \in {"PERF_RECORD_SAMPLE", "PERF_RECORD_MMAP", "PERF_RECORD_FINISHED_ROUND"},
      a \in SampleArrays }

NoLookup == [done |-> FALSE, type |-> "", array |-> <<>>, reader |-> NoReader]

\* PerfReader::ReadAttr: the attr is stored and AddPerfFileAttr creates its
\* sample info reader.
ReadAttr(attr) ==
  /\ attr_ok
  /\ Len(file_attrs) < MaxAttrs
  /\ LET r == CreateSampleInfoReader(serializer_, attr)
     IN  /\ file_attrs' = Append(file_attrs, attr)
         /\ serializer_' = r.ser
         /\ attr_ok' = r.ok
  /\ lookup' = NoLookup
  /\ UNCHANGED nonSerVars

\* An event of the data section reaches the sample info lookup
\* (ReadNonHeaderEventDataWithoutHeader -> SerializeEvent ->
\* ReadPerfSampleInfoAndType -> GetSampleInfoReaderForEvent).
ReadPerfSampleInfoAndType(event) ==
  /\ attr_ok
  /\ SampleInfoReaderAvailable(serializer_)
  /\ ContainsSampleInfo(serializer_, event.type)
  /\ lookup' = [done |-> TRUE, type |-> event.type, array |-> event.array,
                reader |-> GetSampleInfoReaderForEvent(serializer_, event)]
  /\ UNCHANGED <<serializer_, file_attrs, attr_ok>>
  /\ UNCHANGED nonSerVars

----------------------------------------------------------------------------
(* PerfReader::MaybeSortEventsByTime and the parser's view of the events *)

\* CompareEventTimes
CompareEventTimes(e1, e2) == e1.timestamp < e2.timestamp

\* Inserts e after every element that does not compare greater than e:
\* the position std::stable_sort gives to an element that came later.
RECURSIVE InsertStable(_, _)
InsertStable(sorted, e) ==
  IF sorted = <<>> THEN <<e>>
  ELSE IF CompareEventTimes(e, sorted[Len(sorted)])
       THEN Append(InsertStable(SubSeq(sorted, 1, Len(sorted) - 1), e),
                   sorted[Len(sorted)])
       ELSE Append(sorted, e)

RECURSIVE StableSort(_)
StableSort(s) ==
  IF s = <<>> THEN <<>>
  ELSE InsertStable(StableSort(SubSeq(s, 1, Len(s) - 1)), s[Len(s)])

\* MaybeSortEventsByTime without the check of the attrs.
MaybeSortEventsByTime_Unchecked(attrs, evs) == StableSort(evs)

\* MaybeSortEventsByTime sorting around the PERF_RECORD_FINISHED_ROUND
\* events: they keep their positions, the other events are sorted into the
\* remaining positions.
MaybeSortEventsByTime_KeepFinishedRound(attrs, evs) ==
  IF \E i \in 1..Len(attrs) : "TIME" \notin attrs[i]
  THEN evs
  ELSE LET Timed(e) == e.type # "PERF_RECORD_FINISHED_ROUND"
           sorted == StableSort(SelectSeq(evs, Timed))
       IN [i \in 1..Len(evs) |->
             IF Timed(evs[i])
             THEN sorted[Len(SelectSeq(SubSeq(evs, 1, i), Timed))]
             ELSE evs[i]]

\* The event list MaybeSortEventsByTime leaves behind.
MaybeSortEventsByTime(attrs, evs) ==
  IF \E i \in 1..Len(attrs) : "TIME" \notin attrs[i]
  THEN evs
  ELSE StableSort(evs)

\* SerializeEvent stores GetTimeFromPerfEvent: the sample time of the event,
\* 0 for an event without sample info such as PERF_RECORD_FINISHED_ROUND
\* (SerializeUserEvent stores its header only).
GetTimeFromPerfEvent(type, time) ==
  IF type = "PERF_RECORD_FINISHED_ROUND" THEN 0 ELSE time

\* Events the parser keeps: PERF_RECORD_FINISHED_ROUND is dropped.
IsParsedEvent(e) == e.type # "PERF_RECORD_FINISHED_ROUND"

MaxEvents == 3
MaxTime == 2
MaxSortAttrs == 2

SortEventTypes ==
  {"PERF_RECORD_SAMPLE", "PERF_RECORD_MMAP", "PERF_RECORD_FINISHED_ROUND"}

SortSampleTypes == { {"IP", "TID"}, {"IP", "TID", "TIME"} }

\* ReadAttr / ReadAttrEventBlock registers an attr.
SortAddAttr(st) ==
  /\ sort_pc = "reading"
  /\ events = <<>>
  /\ Len(sort_attrs) < MaxSortAttrs
  /\ sort_attrs' = Append(sort_attrs, st)
  /\ UNCHANGED <<events, events_before, parsed_events, sort_pc>>
  /\ UNCHANGED nonSortVars

\* ReadNonHeaderEventDataWithoutHeader appends the serialized event.  uid is
\* the identity of the event object (its position in the input).
SortReadEvent(type, time) ==
  /\ sort_pc = "reading"
  /\ Len(events) < MaxEvents
  /\ events' = Append(events, [type |-> type, uid |-> Len(events) + 1,
                               timestamp |-> GetTimeFromPerfEvent(type, time)])
  /\ UNCHANGED <<sort_attrs, events_before, parsed_events, sort_pc>>
  /\ UNCHANGED nonSortVars

\* PerfReader::MaybeSortEventsByTime called on its own.
SortEvents ==
  /\ sort_pc = "reading"
  /\ events_before' = events
  /\ events' = MaybeSortEventsByTime(sort_attrs, events)
  /\ sort_pc' = "sorted"
  /\ UNCHANGED <<sort_attrs, parsed_events>>
  /\ UNCHANGED nonSortVars

\* PerfParser::ParseRawEvents: the time sort when the option asks for it,
\* then one parsed event per reader event that is not a FINISHED_ROUND.
ParseRawEvents(sort_events_by_time) ==
  /\ sort_pc = "reading"
  /\ events_before' = events
  /\ events' = IF sort_events_by_time
               THEN MaybeSortEventsByTime(sort_attrs, events)
               ELSE events
  /\ parsed_events' = SelectSeq(events', IsParsedEvent)
  /\ sort_pc' = IF sort_events_by_time THEN "parsed_sorted" ELSE "parsed"
  /\ UNCHANGED sort_attrs
  /\ UNCHANGED nonSortVars

----------------------------------------------------------------------------
(* PerfParser: per-process mapping tables, sample resolution, remapping *)

MaxAddr == 3
MaxParserEvents == 3
MaxPgoff == 2

\* pid of the kernel's mapper (UINT32_MAX, written as the 32-bit value -1).
kKernelPid == 0 - 1

UserPids == {1001, 1002}

Pids == UserPids \cup {kKernelPid}

\* Where the kernel's mappings go in the remapped space.
KernelRemapBase == MaxAddr

NoDso == ""

\* insert that leaves the older overlapping ranges in place.
InsertMapping_KeepOld(pieces, m) ==
  pieces \cup
  { [lo |-> m.start, hi |-> m.start + m.len, start |-> m.start, pgoff |-> m.pgoff,
     filename |-> m.filename, new_start |-> m.new_start, seq |-> m.seq] }

\* insert that removes every older range it overlaps, whole.
InsertMapping_DropOld(pieces, m) ==
  { p \in pieces : p.hi <= m.start \/ p.lo >= m.start + m.len } \cup
  { [lo |-> m.start, hi |-> m.start + m.len, start |-> m.start, pgoff |-> m.pgoff,
     filename |-> m.filename, new_start |-> m.new_start, seq |-> m.seq] }

\* insert(mapping): the new mapping takes precedence over the overlapping
\* portions of older ones; an older range is split or truncated.
InsertMapping(pieces, m) ==
  LET lo == m.start
      hi == m.start + m.len
      left  == { [p EXCEPT !.hi = lo] : p \in { q \in pieces : q.lo < lo /\ q.hi > lo } }
      right == { [p EXCEPT !.lo = hi] : p \in { q \in pieces : q.lo < hi /\ q.hi > hi } }
      clear == { p \in pieces : p.hi <= lo \/ p.lo >= hi }
  IN  clear \cup left \cup right \cup
      { [lo |-> lo, hi |-> hi, start |-> m.start, pgoff |-> m.pgoff,
         filename |-> m.filename, new_start |-> m.new_start, seq |-> m.seq] }

\* A table in which nothing is ever found.
Covering_Nothing(pieces, addr) == {}

Covering(pieces, addr) == { p \in pieces : p.lo <= addr /\ addr < p.hi }

\* lookup(pid, addr): the pid's own table first, then the kernel's.
LookupPieces(mappers, pid, addr) ==
  IF Covering(mappers[pid], addr) # {}
  THEN Covering(mappers[pid], addr)
  ELSE Covering(mappers[kKernelPid], addr)

\* The offset inside the mapping, without the mapping's file offset.
OffsetInFile_NoPgoff(p, addr) == addr - p.start

\* offset_in_file = mapping.file_offset + (addr - mapping.start)
OffsetInFile(p, addr) == p.pgoff + (addr - p.start)

\* No rewriting of the address.
RemappedAddr_Identity(p, addr) == addr

\* The original-to-remapped transform of an address inside piece p.
RemappedAddr(p, addr) == p.new_start + (addr - p.start)

\* First remapped address of a pid's table.
RemapBase(pid) == IF pid = kKernelPid THEN KernelRemapBase ELSE 0

RECURSIVE SumOver(_, _)
SumOver(f, S) ==
  IF S = {} THEN 0
  ELSE LET x == CHOOSE y \in S : TRUE IN f[x] + SumOver(f, S \ {x})

\* One running length shared by all the user pids.
NextRemapStart_Shared(next, pid) ==
  IF pid = kKernelPid THEN RemapBase(pid) + next[pid] ELSE SumOver(next, UserPids)

\* New start of the next mapping of pid: the running cumulative length of
\* the pid's previously remapped mappings.
NextRemapStart(next, pid) == RemapBase(pid) + next[pid]

Dsos ==
  { [filename |-> "/usr/lib/foo.so", pgoff |-> 0],
    [filename |-> "/usr/lib/bar.so", pgoff |-> MaxPgoff] }

UserMmaps ==
  { [type |-> "PERF_RECORD_MMAP", pid |-> pid, start |-> st, len |-> ln,
     pgoff |-> d.pgoff, filename |-> d.filename] :
      pid \in UserPids, st \in 0..(MaxAddr - 1), ln \in 1..MaxAddr, d \in Dsos }

\* The kernel mapping covers the whole address space, as in
\* MmapCoversEntireAddressSpace.
KernelMmaps ==
  { [type |-> "PERF_RECORD_MMAP", pid |-> kKernelPid, start |-> 0,
     len |-> MaxAddr, pgoff |-> 0, filename |-> "[kernel.kallsyms]_text"] }

MmapEvents == { m \in UserMmaps : m.start + m.len <= MaxAddr } \cup KernelMmaps

SampleEvents ==
  { [type |-> "PERF_RECORD_SAMPLE", pid |-> pid, ip |-> ip, addr |-> addr] :
      pid \in UserPids, ip \in 0..(MaxAddr - 1), addr \in 0..(MaxAddr - 1) }

NoStats ==
  [num_mmap_events |-> 0, num_sample_events |-> 0, num_sample_events_mapped |-> 0,
   num_data_sample_events |-> 0, num_data_sample_events_mapped |-> 0]

ParserInit ==
  /\ do_remap \in BOOLEAN
  /\ parser_events = <<>>
  /\ process_mappers_ = [pid \in Pids |-> {}]
  /\ remap_next = [pid \in Pids |-> 0]
  /\ stats = NoStats

\* The parser processes an MMAP/MMAP2 record: insert into the pid's table;
\* with do_remap the event's start becomes the pid's running length, len
\* and pgoff stay (the kernel MMAP's pgoff is zeroed).
MapMmapEvent(ev) ==
  /\ Len(parser_events) < MaxParserEvents
  /\ LET new_start == NextRemapStart(remap_next, ev.pid)
         m == [start |-> ev.start, len |-> ev.len, pgoff |-> ev.pgoff,
               filename |-> ev.filename, new_start |-> new_start,
               seq |-> Len(parser_events) + 1]
         out == IF do_remap
                THEN [ev EXCEPT !.start = new_start,
                                !.pgoff = IF ev.pid = kKernelPid THEN 0 ELSE ev.pgoff]
                ELSE ev
     IN  /\ process_mappers_' =
              [process_mappers_ EXCEPT ![ev.pid] = InsertMapping(@, m)]
         /\ remap_next' = [remap_next EXCEPT ![ev.pid] = @ + ev.len]
         /\ parser_events' = Append(parser_events, [raw |-> ev, out |-> out])
  /\ stats' = [stats EXCEPT !.num_mmap_events = @ + 1]
  /\ UNCHANGED do_remap
  /\ UNCHANGED nonParserVars

\* The parser processes a SAMPLE: resolve the IP (and the data address when
\* it is not zero), stamp dso_and_offset, rewrite the addresses when
\* remapping (an unmapped address gets the top bit set).
MapSampleEvent(ev) ==
  /\ Len(parser_events) < MaxParserEvents
  /\ LET hit == LookupPieces(process_mappers_, ev.pid, ev.ip)
         mapped == hit # {}
         p == CHOOSE q \in hit : TRUE
         has_data == ev.addr # 0
         data_hit == IF has_data
                     THEN LookupPieces(process_mappers_, ev.pid, ev.addr)
                     ELSE {}
         data_mapped == data_hit # {}
         d == CHOOSE q \in data_hit : TRUE
         out == [type |-> ev.type, pid |-> ev.pid,
                 ip |-> IF do_remap /\ mapped THEN RemappedAddr(p, ev.ip) ELSE ev.ip,
                 ip_top_bit |-> do_remap /\ ~mapped,
                 mapped |-> mapped,
                 dso_name |-> IF mapped THEN p.filename ELSE NoDso,
                 offset |-> IF mapped THEN OffsetInFile(p, ev.ip) ELSE 0,
                 addr |-> IF do_remap /\ data_mapped
                          THEN RemappedAddr(d, ev.addr) ELSE ev.addr,
                 addr_top_bit |-> do_remap /\ has_data /\ ~data_mapped,
                 data_mapped |-> data_mapped,
                 data_dso_name |-> IF data_mapped THEN d.filename ELSE NoDso,
                 data_offset |-> IF data_mapped THEN OffsetInFile(d, ev.addr) ELSE 0]
     IN  /\ parser_events' = Append(parser_events, [raw |-> ev, out |-> out])
         /\ stats' = [stats EXCEPT
                        !.num_sample_events = @ + 1,
                        !.num_sample_events_mapped = @ + BoolToNat(mapped),
                        !.num_data_sample_events = @ + BoolToNat(has_data),
                        !.num_data_sample_events_mapped = @ + BoolToNat(data_mapped)]
  /\ UNCHANGED <<do_remap, process_mappers_, remap_next>>
  /\ UNCHANGED nonParserVars

----------------------------------------------------------------------------
(* PerfReader: reading and writing perf.data *)

\* The magic number, as the eight bytes it is stored in, and the same bytes
\* read on a machine of the other endianness.
kPerfMagic == "PERFILE2"
kPerfMagicSwapped == "2ELIFREP"

\* sizeof(perf_pipe_file_header) and sizeof(perf_file_header)
kPipedHeaderSize == 16
kFileHeaderSize == 104

kMaxBuildIdSize == 20

\* sizeof(struct perf_event_header)
kEventHeaderSize == 8

\* sizeof(perf_event_attr), in words of 8 bytes
kPerfEventAttrWords == 3

\* sizeof(perf_file_section), in words of 8 bytes
kFileSectionWords == 2

\* sizeof(struct build_id_event)
kBuildIdEventSize == 36

\* sizeof(string_size_type), and of the counts of the metadata sections
kUint32Size == 4

HEADER_FIRST_FEATURE == 1
HEADER_BUILD_ID == 2
HEADER_EVENT_DESC == 12
HEADER_LAST_FEATURE == 18

\* Where the HEADER_BUILD_ID bit of a feature word lands when the word is
\* read without swapping its eight bytes.
kSwappedBuildIdBit == 8 * 7 + HEADER_BUILD_ID

kSupportedMetadataMask == HEADER_FIRST_FEATURE..(HEADER_LAST_FEATURE - 1)

\* bswap_64 on the set of the bits of a word: the byte of a bit moves from
\* place k to place 7 - k.
ByteSwap(word) == { 8 * (7 - (b \div 8)) + (b % 8) : b \in word }

HEADER_HOSTNAME == 3

\* header_.adds_features[0] after ReadHeader of a cross-endian file: swapped
\* as a word of 64 bits when that sets the HEADER_HOSTNAME bit, and as two
\* words of 32 bits otherwise.
HostOrderFeatures(word) ==
  IF HEADER_HOSTNAME \in ByteSwap(word) THEN ByteSwap(word)
  ELSE { 32 * (b \div 32) + 8 * (3 - ((b % 32) \div 8)) + (b % 8) : b \in word }

IsSupportedKernelEventType(type) ==
  type \in {"PERF_RECORD_MMAP", "PERF_RECORD_LOST", "PERF_RECORD_COMM",
            "PERF_RECORD_EXIT", "PERF_RECORD_THROTTLE", "PERF_RECORD_UNTHROTTLE",
            "PERF_RECORD_FORK", "PERF_RECORD_SAMPLE", "PERF_RECORD_MMAP2",
            "PERF_RECORD_AUX", "PERF_RECORD_ITRACE_START",
            "PERF_RECORD_LOST_SAMPLES", "PERF_RECORD_SWITCH",
            "PERF_RECORD_SWITCH_CPU_WIDE", "PERF_RECORD_NAMESPACES",
            "PERF_RECORD_CGROUP"}

IsSupportedUserEventType(type) ==
  type \in {"PERF_RECORD_FINISHED_ROUND", "PERF_RECORD_AUXTRACE_INFO",
            "PERF_RECORD_AUXTRACE", "PERF_RECORD_AUXTRACE_ERROR",
            "PERF_RECORD_THREAD_MAP", "PERF_RECORD_STAT_CONFIG",
            "PERF_RECORD_STAT", "PERF_RECORD_STAT_ROUND", "PERF_RECORD_TIME_CONV"}

IsSupportedHeaderEventType(type) ==
  type \in {"PERF_RECORD_HEADER_ATTR", "PERF_RECORD_HEADER_EVENT_TYPE",
            "PERF_RECORD_HEADER_TRACING_DATA", "PERF_RECORD_HEADER_BUILD_ID",
            "PERF_RECORD_HEADER_FEATURE"}

IsProcMapTimeoutMmap(ev) ==
  /\ ev.type \in {"PERF_RECORD_MMAP", "PERF_RECORD_MMAP2"}
  /\ "PROC_MAP_PARSE_TIMEOUT" \in ev.misc

EmptyProto ==
  [file_attrs |-> <<>>, events |-> <<>>, build_ids |-> <<>>,
   metadata_mask |-> {}, event_types |-> <<>>]

\* A freshly constructed PerfReader.
NewReader ==
  [ok |-> TRUE, mode |-> "none", is_cross_endian_ |-> FALSE,
   proto_ |-> EmptyProto, serializer_ |-> NewSerializer,
   filenames_with_build_id_ |-> {}, file_attrs_seen_ |-> {},
   file_attr_configs_seen_ |-> {},
   event_types_to_skip_when_serializing_ |-> {},
   num_event_types |-> 0,   \* local of ReadPipedData
   tell |-> 0,              \* position of the DataReader
   read_size |-> 0]         \* what the last event read reported as read

Failed(st) == [st EXCEPT !.ok = FALSE]

set_metadata_mask_bit(st, bit) ==
  [st EXCEPT !.proto_.metadata_mask = @ \cup {bit}]

AddPerfFileAttr(st, attr) ==
  LET r == CreateSampleInfoReader(st.serializer_, attr)
      s1 == [st EXCEPT !.proto_.file_attrs = Append(@, attr),
                       !.serializer_ = r.ser]
  IN  IF ~r.ok THEN Failed(s1)
      ELSE [s1 EXCEPT
              !.file_attrs_seen_ = IF attr.ids # <<>> THEN @ \cup {attr.ids[1]} ELSE @,
              !.file_attr_configs_seen_ = @ \cup {attr.config}]

\* Variant: a repeated config drops the attr whether it has ids or not.
ReadAttrEventBlock_ConfigOnly(st, attr) ==
  IF attr.config \in st.file_attr_configs_seen_ THEN st
  ELSE IF attr.ids # <<>> /\ attr.ids[1] \in st.file_attrs_seen_ THEN st
  ELSE AddPerfFileAttr(st, attr)

\* A PERF_RECORD_HEADER_ATTR record of a piped file.
ReadAttrEventBlock(st, attr) ==
  IF attr.ids = <<>> /\ attr.config \in st.file_attr_configs_seen_ THEN st
  ELSE IF attr.ids # <<>> /\ attr.ids[1] \in st.file_attrs_seen_ THEN st
  ELSE AddPerfFileAttr(st, attr)

\* The build id entry made from an MMAP2 record that carries a build id.
CreateBuildIDEvent(ev) ==
  [filename |-> ev.filename, build_id |-> ev.build_id, misc |-> ev.misc]

\* SerializeEvent fails on an MMAP2 event whose build id is longer than the
\* array that holds it (SerializeMMap2Event).
SerializeEvent(ev) ==
  ~(/\ ev.type = "PERF_RECORD_MMAP2"
    /\ "MMAP_BUILD_ID" \in ev.misc
    /\ ev.build_id_size > kMaxBuildIdSize)

\* The trace data of a PERF_RECORD_AUXTRACE event follows the event;
\* ev.following bytes of the input come after the event.
ReadAuxtraceTraceData(st, ev) ==
  IF ev.trace_size > ev.following THEN Failed(st)
  ELSE [st EXCEPT !.tell = @ + ev.trace_size]

ReadNonHeaderEventDataWithoutHeader(st, ev) ==
  LET skip_or_read_size == ev.size - kEventHeaderSize
      s0 == [st EXCEPT !.tell = @ + skip_or_read_size,
                       !.read_size = skip_or_read_size]
  IN
  IF ~IsSupportedKernelEventType(ev.type) /\ ~IsSupportedUserEventType(ev.type)
  THEN s0
  ELSE IF ~SampleInfoReaderAvailable(st.serializer_) THEN Failed(st)
  ELSE IF IsProcMapTimeoutMmap(ev) THEN s0
  ELSE IF /\ ev.type \in {"PERF_RECORD_MMAP", "PERF_RECORD_MMAP2"}
          /\ st.proto_.file_attrs[1].exclude_kernel
          /\ "KERNEL" \in ev.misc
          /\ ev.len = 0
       THEN s0
  ELSE LET s1 == IF /\ ev.type = "PERF_RECORD_MMAP2"
                    /\ "MMAP_BUILD_ID" \in ev.misc
                    /\ ev.filename \notin s0.filenames_with_build_id_
                 THEN IF ev.build_id_size > kMaxBuildIdSize THEN Failed(s0)
                      ELSE [s0 EXCEPT
                              !.proto_.build_ids = Append(@, CreateBuildIDEvent(ev)),
                              !.filenames_with_build_id_ = @ \cup {ev.filename}]
                 ELSE s0
       IN  IF ~s1.ok THEN s1
           ELSE IF ev.type \in s1.event_types_to_skip_when_serializing_ THEN s1
           ELSE IF ~SerializeEvent(ev) THEN Failed(s1)
           ELSE LET s2 == [s1 EXCEPT !.proto_.events = Append(@, ev)]
                IN  IF ev.type # "PERF_RECORD_AUXTRACE" THEN s2
                    ELSE LET s3 == ReadAuxtraceTraceData(s2, ev)
                         IN  IF ~s3.ok THEN s3
                             ELSE [s3 EXCEPT !.read_size = @ + ev.trace_size]

RECURSIVE ReadAttrsSection(_, _)
ReadAttrsSection(st, attrs) ==
  IF attrs = <<>> \/ ~st.ok THEN st
  ELSE ReadAttrsSection(AddPerfFileAttr(st, Head(attrs)), Tail(attrs))

RECURSIVE ReadDataSection(_, _)
ReadDataSection(st, data) ==
  IF data = <<>> \/ ~st.ok THEN st
  ELSE ReadDataSection(ReadNonHeaderEventDataWithoutHeader(st, Head(data)),
                       Tail(data))

\* Entries of the HEADER_BUILD_ID section are appended to the build ids.
ReadBuildIDMetadata(st, section) ==
  [st EXCEPT !.proto_.build_ids = @ \o section]

RECURSIVE ReadEventDescEntries(_, _)
ReadEventDescEntries(st, entries) ==
  IF entries = <<>> \/ ~st.ok THEN st
  ELSE LET s1 == AddPerfFileAttr(st, Head(entries).attr)
       IN  ReadEventDescEntries(
             IF s1.ok
             THEN [s1 EXCEPT !.proto_.event_types =
                               Append(@, [id |-> Head(entries).attr.config,
                                          name |-> Head(entries).name])]
             ELSE s1,
             Tail(entries))

ReadEventDescMetadata(st, entries) ==
  ReadEventDescEntries(
    [st EXCEPT !.file_attrs_seen_ = {}, !.file_attr_configs_seen_ = {},
               !.proto_.file_attrs = <<>>],
    entries)

\* One section per supported feature bit of the mask, in the order of the bits.
ReadMetadata(st, f) ==
  LET s1 == IF HEADER_BUILD_ID \in st.proto_.metadata_mask
            THEN ReadBuildIDMetadata(st, f.build_id_section)
            ELSE st
  IN  IF HEADER_EVENT_DESC \in s1.proto_.metadata_mask
      THEN ReadEventDescMetadata(s1, f.event_desc)
      ELSE s1

ReadFileData(st, f) ==
  LET s0 == [st EXCEPT !.mode = "normal"]
      s1 == IF HEADER_EVENT_DESC \notin s0.proto_.metadata_mask
            THEN ReadAttrsSection(s0, f.attrs)
            ELSE s0
      s2 == IF s1.ok THEN ReadMetadata(s1, f) ELSE s1
      s3 == IF s2.ok THEN ReadDataSection(s2, f.data) ELSE s2
  IN  IF s3.ok /\ s3.proto_.event_types # <<>>
      THEN set_metadata_mask_bit(s3, HEADER_EVENT_DESC)
      ELSE s3

\* A PERF_RECORD_HEADER_EVENT_TYPE record: the event type of the attr at
\* index num_event_types.
ReadEventType(st, ev) ==
  LET attr_idx == st.num_event_types
      s1 == [st EXCEPT !.num_event_types = @ + 1]
  IN  IF attr_idx >= Len(st.proto_.file_attrs) THEN Failed(s1)
      ELSE IF ev.event_id # st.proto_.file_attrs[attr_idx + 1].config
      THEN Failed(s1)
      ELSE [s1 EXCEPT !.proto_.event_types =
                         Append(@, [id |-> ev.event_id, name |-> ev.filename])]

\* A PERF_RECORD_HEADER_FEATURE record that carries HEADER_EVENT_DESC or a
\* feature with a string.
ReadHeaderFeature(st, ev) ==
  IF ev.feat_id = HEADER_BUILD_ID THEN Failed(st)
  ELSE set_metadata_mask_bit(
         IF ev.feat_id = HEADER_EVENT_DESC
         THEN ReadEventDescMetadata(st, ev.event_desc)
         ELSE st,
         ev.feat_id)

\* One turn of the loop of ReadPipedData.
ReadPipedRecord(st, ev) ==
  LET s0 == [st EXCEPT !.tell = @ + kEventHeaderSize]
  IN  IF IsSupportedHeaderEventType(ev.type)
      THEN LET s1 == [s0 EXCEPT !.tell = @ + ev.size - kEventHeaderSize]
           IN  IF ev.type = "PERF_RECORD_HEADER_ATTR"
               THEN ReadAttrEventBlock(s1, ev.attr)
               ELSE IF ev.type = "PERF_RECORD_HEADER_EVENT_TYPE"
               THEN ReadEventType(s1, ev)
               ELSE IF ev.type = "PERF_RECORD_HEADER_BUILD_ID"
               THEN ReadBuildIDMetadata(
                      set_metadata_mask_bit(s1, HEADER_BUILD_ID),
                      << [filename |-> ev.filename, build_id |-> ev.build_id,
                          misc |-> ev.misc] >>)
               ELSE IF ev.type = "PERF_RECORD_HEADER_FEATURE"
               THEN ReadHeaderFeature(s1, ev)
               ELSE s1
      ELSE ReadNonHeaderEventDataWithoutHeader(s0, ev)

RECURSIVE ReadPipedRecords(_, _)
ReadPipedRecords(st, data) ==
  IF data = <<>> \/ ~st.ok THEN st
  ELSE ReadPipedRecords(ReadPipedRecord(st, Head(data)), Tail(data))

\* What ReadPipedData does when the loop has ended without an error.
FinishPipedData(st) ==
  IF /\ st.ok
     /\ HEADER_EVENT_DESC \notin st.proto_.metadata_mask
     /\ st.num_event_types = Len(st.proto_.file_attrs)
  THEN set_metadata_mask_bit(st, HEADER_EVENT_DESC)
  ELSE st

\* The records of a piped stream follow its header.
BeginPipedData(st) ==
  [st EXCEPT !.mode = "piped", !.tell = kPipedHeaderSize]

ReadPipedData(st, f) ==
  FinishPipedData(ReadPipedRecords(BeginPipedData(st), f.data))

\* f.intact: the rest of the 104-byte header is in the buffer and its three
\* sections lie inside the buffer.
ReadHeader(st, f) ==
  IF f.magic # kPerfMagic /\ f.magic # kPerfMagicSwapped THEN Failed(st)
  ELSE LET s1 == [st EXCEPT !.is_cross_endian_ = (f.magic # kPerfMagic)]
       IN  IF f.size = kPipedHeaderSize THEN s1
           ELSE IF ~f.intact THEN Failed(s1)
           ELSE [s1 EXCEPT !.proto_.metadata_mask = f.adds_features]

\* Any header that is not a full header is read as piped data.
ReadFromData_NoPipedSizeCheck(st, f) ==
  LET s1 == ReadHeader(st, f)
  IN  IF ~s1.ok THEN s1
      ELSE IF f.size = kFileHeaderSize THEN ReadFileData(s1, f)
      ELSE ReadPipedData(s1, f)

ReadFromData(st, f) ==
  LET s1 == ReadHeader(st, f)
  IN  IF ~s1.ok THEN s1
      ELSE IF f.size = kFileHeaderSize THEN ReadFileData(s1, f)
      ELSE IF f.size # kPipedHeaderSize THEN Failed(s1)
      ELSE ReadPipedData(s1, f)

\* Fails when there are more attrs than event types, or when an event type
\* does not have the config of the attr at its index
\* (DeserializePerfEventType).
WriteEventDescMetadata(proto) ==
  /\ Len(proto.file_attrs) <= Len(proto.event_types)
  /\ \A i \in 1..Len(proto.file_attrs) :
       proto.event_types[i].id = proto.file_attrs[i].config

\* The event_desc entries the writer emits: one per attr, named by the
\* event type at the same index.
EventDescOf(proto) ==
  [i \in 1..Len(proto.file_attrs) |->
     [attr |-> proto.file_attrs[i], name |-> proto.event_types[i].name]]

\* The size of a string in the file: its length field and the string with
\* its terminator, padded.
ExpectedStorageSizeOf(str) == kUint32Size + GetUint64AlignedStringLength(Len(str))

\* GenerateHeader: what lies before the metadata, that is the header, the
\* ids, the attrs (header.attrs.size) and the events with the trace data of
\* the AUXTRACE events (header.data.size).
MetadataOffset(proto) ==
  kFileHeaderSize
  + SumSeq([i \in 1..Len(proto.file_attrs) |-> 8 * Len(proto.file_attrs[i].ids)])
  + 8 * (kPerfEventAttrWords + kFileSectionWords) * Len(proto.file_attrs)
  + SumSeq([i \in 1..Len(proto.events) |->
              proto.events[i].size
              + IF proto.events[i].type = "PERF_RECORD_AUXTRACE"
                THEN proto.events[i].trace_size ELSE 0])

GetNumSupportedMetadata(proto) ==
  Cardinality(proto.metadata_mask \cap kSupportedMetadataMask)

GetBuildIDMetadataSize(proto) ==
  SumSeq([i \in 1..Len(proto.build_ids) |->
            kBuildIdEventSize
            + GetUint64AlignedStringLength(Len(proto.build_ids[i].filename))])

GetEventDescMetadataSize(proto) ==
  IF Len(proto.file_attrs) > Len(proto.event_types) THEN 0
  ELSE IF HEADER_EVENT_DESC \notin proto.metadata_mask THEN 0
  ELSE 2 * kUint32Size
       + SumSeq([i \in 1..Len(proto.file_attrs) |->
                   8 * kPerfEventAttrWords + kUint32Size
                   + ExpectedStorageSizeOf(proto.event_types[i].name)
                   + 8 * Len(proto.file_attrs[i].ids)])

\* The proto of the model has no tracing data and no string, uint32, uint64,
\* topology, PMU or group metadata: their sizes are 0, but for the counts
\* that the sizes of the CPU topology (two), the NUMA topology, the PMU
\* mappings and the group descriptions always include.
GetSize(proto) ==
  MetadataOffset(proto)
  + GetNumSupportedMetadata(proto) * 8 * kFileSectionWords
  + GetBuildIDMetadataSize(proto)
  + GetEventDescMetadataSize(proto)
  + 2 * kUint32Size + kUint32Size + kUint32Size + kUint32Size

\* Where the writer stands after WriteMetadata: behind the section headers
\* and the metadata of the features of the header's mask.
WriteMetadataEnd(proto) ==
  LET features == proto.metadata_mask \cap kSupportedMetadataMask
  IN  MetadataOffset(proto)
      + GetNumSupportedMetadata(proto) * 8 * kFileSectionWords
      + (IF HEADER_BUILD_ID \in features THEN GetBuildIDMetadataSize(proto) ELSE 0)
      + (IF HEADER_EVENT_DESC \in features
         THEN GetEventDescMetadataSize(proto) ELSE 0)

\* GenerateHeader, WriteHeader, WriteAttrs, WriteData, WriteMetadata: a
\* native-endian file in normal mode with the sections in the writer's
\* order.  Returns [ok, file].
WriteToVector(st) ==
  LET proto == st.proto_
      features == proto.metadata_mask \cap kSupportedMetadataMask
      desc_ok == HEADER_EVENT_DESC \in features => WriteEventDescMetadata(proto)
      data_ok == proto.events # <<>> => SampleInfoReaderAvailable(st.serializer_)
  IN  [ok |-> desc_ok /\ data_ok,
       size |-> GetSize(proto),            \* of the vector
       tell |-> WriteMetadataEnd(proto),   \* of the writer at its end
       file |->
         [magic |-> kPerfMagic, size |-> kFileHeaderSize, intact |-> TRUE,
          adds_features |-> features,
          attrs |-> proto.file_attrs,
          data |-> proto.events,
          build_id_section |->
            IF HEADER_BUILD_ID \in features THEN proto.build_ids ELSE <<>>,
          event_desc |->
            IF HEADER_EVENT_DESC \in features /\ desc_ok
            THEN EventDescOf(proto) ELSE <<>>,
          extra_padding |-> FALSE]]

\* ---- Inputs of SpecReader ----

MaxRecords == 2

NoAttr ==
  [sample_type |-> {}, ids |-> <<>>, sample_id_all |-> FALSE, config |-> 0,
   exclude_kernel |-> FALSE]

ReaderAttrs ==
  { [sample_type |-> {"IP", "TID"}, ids |-> <<1>>, sample_id_all |-> TRUE,
     config |-> 0, exclude_kernel |-> FALSE],
    [sample_type |-> {"IP", "TID"}, ids |-> <<>>, sample_id_all |-> TRUE,
     config |-> 0, exclude_kernel |-> TRUE] }

Record(type, misc, filename, build_id_size, len, attr) ==
  [type |-> type, misc |-> misc, filename |-> filename,
   build_id |-> IF build_id_size = 0 THEN "" ELSE "abcd",
   build_id_size |-> build_id_size, len |-> len, attr |-> attr,
   size |-> 2 * kEventHeaderSize, trace_size |-> 0, following |-> 0,
   event_id |-> 0, feat_id |-> 0, event_desc |-> <<>>]

\* Records of a data section: a sample, MMAP2 records without and with a
\* build id (one of them too long), a /proc/PID/maps timeout MMAP2, a
\* zero-length kernel MMAP, a FINISHED_ROUND and a record of a type the
\* serializer does not support.
DataRecords ==
  { Record("PERF_RECORD_SAMPLE", {"USER"}, "", 0, 0, NoAttr),
    Record("PERF_RECORD_MMAP2", {"USER"}, "/usr/lib/foo.so", 0, 1, NoAttr),
    Record("PERF_RECORD_MMAP2", {"USER", "MMAP_BUILD_ID"}, "/usr/lib/foo.so",
           kMaxBuildIdSize, 1, NoAttr),
    Record("PERF_RECORD_MMAP2", {"USER", "MMAP_BUILD_ID"}, "/usr/lib/bar.so",
           kMaxBuildIdSize + 1, 1, NoAttr),
    Record("PERF_RECORD_MMAP2", {"USER", "PROC_MAP_PARSE_TIMEOUT"},
           "/usr/lib/foo.so", 0, 1, NoAttr),
    Record("PERF_RECORD_MMAP", {"KERNEL"}, "[kernel.kallsyms]_text", 0, 0, NoAttr),
    Record("PERF_RECORD_FINISHED_ROUND", {}, "", 0, 0, NoAttr),
    Record("PERF_RECORD_READ", {}, "", 0, 0, NoAttr) }

\* Records that only a piped file carries.
HeaderRecords ==
  { Record("PERF_RECORD_HEADER_ATTR", {}, "", 0, 0, a) : a \in ReaderAttrs } \cup
  { Record("PERF_RECORD_HEADER_BUILD_ID", {"USER"}, "/usr/lib/foo.so",
           kMaxBuildIdSize, 0, NoAttr) }

SeqsUpTo(S, n) == UNION { [1..k -> S] : k \in 0..n }

\* An entry of the HEADER_BUILD_ID section.
SectionBuildId ==
  [filename |-> "/usr/lib/foo.so", build_id |-> "abcd", misc |-> {"USER"}]

\* Feature bits of an input file, as its first feature word reads without
\* byte swapping.  Bit 18 and above have no reader.
FeatureWords(magic) ==
  IF magic = kPerfMagic
  THEN SUBSET {HEADER_BUILD_ID, HEADER_LAST_FEATURE}
  ELSE SUBSET {kSwappedBuildIdBit}

HasBuildIdSection(magic, features) ==
  IF magic = kPerfMagic THEN HEADER_BUILD_ID \in features
  ELSE kSwappedBuildIdBit \in features

NormalFiles ==
  { [magic |-> magic, size |-> kFileHeaderSize, intact |-> TRUE,
     adds_features |-> features, attrs |-> attrs, data |-> data,
     build_id_section |-> section, event_desc |-> <<>>,
     extra_padding |-> padding] :
      magic \in {kPerfMagic, kPerfMagicSwapped},
      features \in SUBSET {HEADER_BUILD_ID, HEADER_LAST_FEATURE, kSwappedBuildIdBit},
      attrs \in SeqsUpTo(ReaderAttrs, 1),
      data \in SeqsUpTo(DataRecords, MaxRecords),
      section \in {<<>>, <<SectionBuildId>>},
      padding \in BOOLEAN }

PipedFiles ==
  { [magic |-> magic, size |-> kPipedHeaderSize, intact |-> TRUE,
     adds_features |-> {}, attrs |-> <<>>, data |-> data,
     build_id_section |-> <<>>, event_desc |-> <<>>,
     extra_padding |-> padding] :
      magic \in {kPerfMagic, kPerfMagicSwapped},
      data \in SeqsUpTo(DataRecords \cup HeaderRecords, MaxRecords + 1),
      padding \in BOOLEAN }

\* Headers of every kind in front of one attr and one sample: a wrong
\* magic, sizes that are neither header's, a buffer that ends too early.
HeaderSizes ==
  {0, kPipedHeaderSize, kPipedHeaderSize + 8, kFileHeaderSize, kFileHeaderSize + 8}

OddHeaderFiles ==
  { [magic |-> magic, size |-> size, intact |-> intact,
     adds_features |-> {},
     attrs |-> IF size = kPipedHeaderSize THEN <<>>
               ELSE << CHOOSE a \in ReaderAttrs : a.ids # <<>> >>,
     data |-> IF size = kPipedHeaderSize
              THEN << Record("PERF_RECORD_HEADER_ATTR", {}, "", 0, 0,
                             CHOOSE a \in ReaderAttrs : a.ids # <<>>),
                      Record("PERF_RECORD_SAMPLE", {"USER"}, "", 0, 0, NoAttr) >>
              ELSE << Record("PERF_RECORD_SAMPLE", {"USER"}, "", 0, 0, NoAttr) >>,
     build_id_section |-> <<>>, event_desc |-> <<>>,
     extra_padding |-> FALSE] :
      magic \in {kPerfMagic, kPerfMagicSwapped, "garbage!"},
      size \in HeaderSizes,
      intact \in BOOLEAN }

InputFiles ==
  { f \in NormalFiles :
      /\ f.adds_features \in FeatureWords(f.magic)
      /\ f.build_id_section # <<>> => HasBuildIdSection(f.magic, f.adds_features) }
  \cup PipedFiles \cup OddHeaderFiles

NoFile ==
  [magic |-> "", size |-> 0, intact |-> FALSE, adds_features |-> {},
   attrs |-> <<>>, data |-> <<>>, build_id_section |-> <<>>,
   event_desc |-> <<>>, extra_padding |-> FALSE]

NotWritten == [ok |-> FALSE, size |-> 0, tell |-> 0, file |-> NoFile]

ReaderStart ==
  /\ bytes = NoFile
  /\ reader = NewReader
  /\ written = NotWritten
  /\ reader2 = NewReader
  /\ reader_pc = "start"

ReaderInit ==
  /\ bytes \in InputFiles
  /\ reader = NewReader
  /\ written = NotWritten
  /\ reader2 = NewReader
  /\ reader_pc = "start"

\* PerfReader::ReadFromData on the input.
ReadInput ==
  /\ reader_pc = "start"
  /\ reader' = ReadFromData(reader, bytes)
  /\ reader_pc' = "read"
  /\ UNCHANGED <<bytes, written, reader2>>
  /\ UNCHANGED nonReaderVars

\* PerfReader::WriteToVector after a successful read.
WriteOutput ==
  /\ reader_pc = "read"
  /\ reader.ok
  /\ written' = WriteToVector(reader)
  /\ reader_pc' = "written"
  /\ UNCHANGED <<bytes, reader, reader2>>
  /\ UNCHANGED nonReaderVars

\* A second PerfReader reads what the first one wrote.
ReadOutput ==
  /\ reader_pc = "written"
  /\ written.ok
  /\ reader2' = ReadFromData(reader2, written.file)
  /\ reader_pc' = "reread"
  /\ UNCHANGED <<bytes, reader, written>>
  /\ UNCHANGED nonReaderVars

ReaderNext == ReadInput \/ WriteOutput \/ ReadOutput

----------------------------------------------------------------------------
(* Build id strings: TrimZeroesFromBuildIDString, as used by              *)
(* PerfSerializer::SerializeBuildIDEvent and exercised by                   *)
(* perf_buildid_test.cc.  A string is a sequence of hex digits.             *)

\* Trailing zeroes are removed in groups of 8 hex digits (4 bytes).
kPaddingSize == 8

kBuildIDPadding == [i \in 1..kPaddingSize |-> "0"]

EndsWithPadding(s) ==
  /\ Len(s) >= kPaddingSize
  /\ SubSeq(s, Len(s) - kPaddingSize + 1, Len(s)) = kBuildIDPadding

RECURSIVE TrimZeroesFromBuildIDString(_)

\* Removes one group of padding only.
TrimZeroesFromBuildIDString_Once(s) ==
  IF EndsWithPadding(s) THEN SubSeq(s, 1, Len(s) - kPaddingSize) ELSE s

\* Removes the padding from the end of the string until no more can be
\* removed; the string can be reduced down to the empty string.
TrimZeroesFromBuildIDString(s) ==
  IF EndsWithPadding(s)
  THEN TrimZeroesFromBuildIDString(SubSeq(s, 1, Len(s) - kPaddingSize))
  ELSE s

MaxBuildIdLen == 16

HexDigits == {"0", "f"}

BuildIdStrings == UNION { [1..n -> HexDigits] : n \in 0..MaxBuildIdLen }

BuildIdStart ==
  /\ build_id_string = <<>>
  /\ trimmed = <<>>
  /\ trimmed_twice = <<>>
  /\ buildid_pc = "start"

BuildIdInit ==
  /\ build_id_string \in BuildIdStrings
  /\ trimmed = <<>>
  /\ trimmed_twice = <<>>
  /\ buildid_pc = "start"

\* TrimZeroesFromBuildIDString(&build_id_string)
TrimBuildId ==
  /\ buildid_pc = "start"
  /\ trimmed' = TrimZeroesFromBuildIDString(build_id_string)
  /\ buildid_pc' = "trimmed"
  /\ UNCHANGED <<build_id_string, trimmed_twice>>
  /\ UNCHANGED nonBuildIdVars

\* A second call on the result, as in the UnperfizeBuildID test.
TrimBuildIdAgain ==
  /\ buildid_pc = "trimmed"
  /\ trimmed_twice' = TrimZeroesFromBuildIDString(trimmed)
  /\ buildid_pc' = "trimmed_twice"
  /\ UNCHANGED <<build_id_string, trimmed>>
  /\ UNCHANGED nonBuildIdVars

BuildIdNext == TrimBuildId \/ TrimBuildIdAgain

----------------------------------------------------------------------------
(* PerfParser passes over the MMAP events before the address mapping:     *)
(* deduce_huge_pages, then combine_adjacent (options                        *)
(* deduce_huge_page_mappings and combine_mappings of the parser tests).     *)

kAnonFilename == "//anon"

IsAnon(m) == m.filename = kAnonFilename

\* b starts where a ends, in the same process.
IsContiguous(a, b) == a.pid = b.pid /\ a.start + a.len = b.start

\* Index of the nearest mapping of m's process before / after position i,
\* 0 when there is none.
PrevIndex(evs, i) ==
  LET S == { j \in 1..(i - 1) : evs[j].pid = evs[i].pid }
  IN  IF S = {} THEN 0 ELSE CHOOSE j \in S : \A k \in S : k <= j

NextIndex(evs, i) ==
  LET S == { j \in (i + 1)..Len(evs) : evs[j].pid = evs[i].pid }
  IN  IF S = {} THEN 0 ELSE CHOOSE j \in S : \A k \in S : j <= k

\* deduce_huge_pages without the comparison of the file offsets.
DeduceHugePage_NoOffsetCheck(evs, i) ==
  LET a == evs[i]
      p == PrevIndex(evs, i)
      n == NextIndex(evs, i)
  IN  IF ~IsAnon(a) \/ n = 0 \/ (n # 0 /\ IsAnon(evs[n])) THEN a
      ELSE IF p # 0
           THEN IF /\ ~IsAnon(evs[p])
                   /\ evs[p].filename = evs[n].filename
                   /\ IsContiguous(evs[p], a)
                   /\ IsContiguous(a, evs[n])
                THEN [a EXCEPT !.filename = evs[p].filename,
                               !.pgoff = evs[p].pgoff + evs[p].len]
                ELSE a
           ELSE IF IsContiguous(a, evs[n]) /\ evs[n].pgoff >= a.len
                THEN [a EXCEPT !.filename = evs[n].filename,
                               !.pgoff = evs[n].pgoff - a.len]
                ELSE a

\* The mapping at position i after deduce_huge_pages: an anonymous mapping
\* sandwiched between two contiguous mappings of the same file whose offsets
\* leave exactly its length free takes their filename and the offset that
\* follows the first; an anonymous mapping with no mapping before it takes
\* the file of the mapping that follows it contiguously.
DeduceHugePage(evs, i) ==
  LET a == evs[i]
      p == PrevIndex(evs, i)
      n == NextIndex(evs, i)
  IN  IF ~IsAnon(a) \/ n = 0 \/ (n # 0 /\ IsAnon(evs[n])) THEN a
      ELSE IF p # 0
           THEN IF /\ ~IsAnon(evs[p])
                   /\ evs[p].filename = evs[n].filename
                   /\ IsContiguous(evs[p], a)
                   /\ IsContiguous(a, evs[n])
                   /\ evs[p].pgoff + evs[p].len + a.len = evs[n].pgoff
                THEN [a EXCEPT !.filename = evs[p].filename,
                               !.pgoff = evs[p].pgoff + evs[p].len]
                ELSE a
           ELSE IF IsContiguous(a, evs[n]) /\ evs[n].pgoff >= a.len
                THEN [a EXCEPT !.filename = evs[n].filename,
                               !.pgoff = evs[n].pgoff - a.len]
                ELSE a

DeduceHugePages(evs) == [i \in 1..Len(evs) |-> DeduceHugePage(evs, i)]

\* combine_adjacent without the comparison of the file offsets.
CanCombine_NoOffsetCheck(old, new) ==
  /\ old.filename = new.filename
  /\ IsContiguous(old, new)

\* new continues old both in memory and in the file.
CanCombine(old, new) ==
  /\ old.filename = new.filename
  /\ IsContiguous(old, new)
  /\ new.pgoff = old.pgoff + old.len

RECURSIVE CombineMappings(_)

\* Each mapping is merged into the last mapping kept when it continues it,
\* and is kept as a mapping of its own otherwise.
CombineMappings(evs) ==
  IF evs = <<>> THEN <<>>
  ELSE LET out == CombineMappings(SubSeq(evs, 1, Len(evs) - 1))
           m == evs[Len(evs)]
       IN  IF out # <<>> /\ CanCombine(out[Len(out)], m)
           THEN [out EXCEPT ![Len(out)].len = @ + m.len]
           ELSE Append(out, m)

MaxHpEvents == 3
MaxHpAddr == 3
MaxHpPgoff == 2

HpPids == {1234, 2345}

\* Anonymous mappings have offset 0, as in HugePagesMappings.
HpFiles ==
  { [filename |-> kAnonFilename, pgoff |-> 0],
    [filename |-> "/usr/lib/libfoo.so", pgoff |-> 0] } \cup
  { [filename |-> "/opt/google/chrome/chrome", pgoff |-> o] : o \in 0..MaxHpPgoff }

HpMmaps ==
  { [pid |-> pid, start |-> st, len |-> ln, pgoff |-> f.pgoff, filename |-> f.filename] :
      pid \in HpPids, st \in 0..(MaxHpAddr - 1), ln \in 1..(MaxHpAddr - 1), f \in HpFiles }

HpInputs ==
  UNION { [1..n -> { m \in HpMmaps : m.start + m.len <= MaxHpAddr }] : n \in 0..MaxHpEvents }

HugePageStart ==
  /\ hp_input = <<>>
  /\ hp_deduced = <<>>
  /\ hp_combined = <<>>
  /\ hp_num_mmap_events = 0
  /\ hp_pc = "start"

HugePageInit ==
  /\ hp_input \in HpInputs
  /\ hp_deduced = <<>>
  /\ hp_combined = <<>>
  /\ hp_num_mmap_events = 0
  /\ hp_pc = "start"

\* options.deduce_huge_page_mappings
DeduceHugePagesPass ==
  /\ hp_pc = "start"
  /\ hp_deduced' = DeduceHugePages(hp_input)
  /\ hp_pc' = "deduced"
  /\ UNCHANGED <<hp_input, hp_combined, hp_num_mmap_events>>
  /\ UNCHANGED nonHugePageVars

\* options.combine_mappings, after the deduction when that is enabled too.
CombineMappingsPass ==
  /\ hp_pc \in {"start", "deduced"}
  /\ hp_deduced' = IF hp_pc = "start" THEN hp_input ELSE hp_deduced
  /\ hp_combined' = CombineMappings(hp_deduced')
  /\ hp_pc' = "combined"
  /\ UNCHANGED <<hp_input, hp_num_mmap_events>>
  /\ UNCHANGED nonHugePageVars

\* The parser walks the events that are left and counts the MMAP events.
ProcessMmapEvents ==
  /\ hp_pc = "combined"
  /\ hp_num_mmap_events' = Len(hp_combined)
  /\ hp_pc' = "parsed"
  /\ UNCHANGED <<hp_input, hp_deduced, hp_combined>>
  /\ UNCHANGED nonHugePageVars

HugePageNext == DeduceHugePagesPass \/ CombineMappingsPass \/ ProcessMmapEvents

----------------------------------------------------------------------------
(* Build ID injection and localization: PerfReader::InjectBuildIDs,         *)
(* Localize, LocalizeUsingFilenames, LocalizeMMapFilenames and              *)
(* GetFilenamesToBuildIDs.  Raw build ID data is written as its hex         *)
(* digits, two per byte, so RawDataToHexString leaves the digits as they    *)
(* are and only changes of length show.                                     *)

kBuildIDArraySize == 20
kHexCharsPerByte == 2
kBuildIDStringLength == kBuildIDArraySize * kHexCharsPerByte

PERF_RECORD_MISC_KERNEL == {"KERNEL"}

Zeroes(n) == [i \in 1..n |-> "0"]

\* Converts whole bytes until either the string or the array runs out.
HexStringToRawData(str, length) ==
  SubSeq(str, 1, kHexCharsPerByte * Min({length, Len(str) \div kHexCharsPerByte}))

\* Pads a build ID string with trailing zeroes to 40 hex digits.
PerfizeBuildIDString(s) ==
  IF Len(s) >= kBuildIDStringLength THEN s
  ELSE s \o Zeroes(kBuildIDStringLength - Len(s))

\* The build ID of the event is an array of 20 bytes; its trailing zeroes
\* are trimmed before it is stored.
SerializeBuildIDEvent(event) ==
  LET build_id == TrimZeroesFromBuildIDString(event.build_id)
  IN  [filename |-> event.filename, misc |-> event.misc,
       build_id_hash |-> HexStringToRawData(build_id, kBuildIDArraySize),
       is_injected |-> FALSE]

IsMmapEvent(event) == event.type \in {"PERF_RECORD_MMAP", "PERF_RECORD_MMAP2"}

\* filename_to_misc[filename] = misc, assigned for every MMAP and MMAP2
\* event in event order, keeps the misc of the first event only.
filename_to_misc_First(evs) ==
  LET of(f) == {i \in DOMAIN evs :
                  IsMmapEvent(evs[i]) /\ evs[i].filename = f}
  IN  [f \in {evs[i].filename :
                i \in {j \in DOMAIN evs : IsMmapEvent(evs[j])}} |->
         evs[Min(of(f))].misc]

\* filename_to_misc[filename] = misc, assigned for every MMAP and MMAP2
\* event in event order: a later event overwrites an earlier one.
filename_to_misc(evs) ==
  LET of(f) == {i \in DOMAIN evs :
                  IsMmapEvent(evs[i]) /\ evs[i].filename = f}
  IN  [f \in {evs[i].filename :
                i \in {j \in DOMAIN evs : IsMmapEvent(evs[j])}} |->
         evs[Max(of(f))].misc]

\* The filenames of the model in the order in which a std::map keeps them.
SortedFilenames == <<"/bin/ls", "/lib/c.so", "/usr/bin/perf">>

RECURSIVE InjectNewBuildIDs(_, _, _, _)
\* Second loop of InjectBuildIDs, from the k-th key of the map on.
InjectNewBuildIDs(proto, m, updated_filenames, k) ==
  IF k > Len(SortedFilenames) THEN proto
  ELSE LET filename == SortedFilenames[k]
       IN  IF filename \notin DOMAIN m \/ filename \in updated_filenames
           THEN InjectNewBuildIDs(proto, m, updated_filenames, k + 1)
           ELSE LET misc_of == filename_to_misc(proto.events)
                    new_misc == IF filename \in DOMAIN misc_of
                                THEN misc_of[filename]
                                ELSE PERF_RECORD_MISC_KERNEL
                    data == HexStringToRawData(m[filename], kBuildIDArraySize)
                    event == CreateBuildIDEvent(
                               [filename |-> filename, misc |-> new_misc,
                                build_id |-> data \o Zeroes(kBuildIDStringLength - Len(data))])
                    build_id_proto == [SerializeBuildIDEvent(event)
                                         EXCEPT !.is_injected = TRUE]
               IN  InjectNewBuildIDs(
                     [proto EXCEPT !.build_ids = Append(@, build_id_proto)],
                     m, updated_filenames, k + 1)

\* The build ID events that exist already keep their build ID.
InjectBuildIDs_KeepObserved(proto, m) ==
  LET updated_filenames ==
        {proto.build_ids[i].filename : i \in DOMAIN proto.build_ids} \cap DOMAIN m
      p1 == [proto EXCEPT !.metadata_mask = @ \cup {HEADER_BUILD_ID}]
  IN  InjectNewBuildIDs(p1, m, updated_filenames, 1)

\* The build ID strings of the model are hex digits, so no conversion fails
\* and the call returns true.
InjectBuildIDs(proto, m) ==
  LET inject(build_id) ==
        IF build_id.filename \notin DOMAIN m THEN build_id
        ELSE LET new_build_id == m[build_id.filename]
             IN  [build_id EXCEPT
                    !.build_id_hash =
                       HexStringToRawData(new_build_id,
                                          Len(new_build_id) \div kHexCharsPerByte),
                    !.is_injected = TRUE]
      updated_filenames ==
        {proto.build_ids[i].filename : i \in DOMAIN proto.build_ids} \cap DOMAIN m
      p1 == [proto EXCEPT
               !.metadata_mask = @ \cup {HEADER_BUILD_ID},
               !.build_ids = [i \in DOMAIN @ |-> inject(@[i])]]
  IN  InjectNewBuildIDs(p1, m, updated_filenames, 1)

\* LocalizeMMapFilenames, then the build ID entries are renamed by filename.
LocalizeUsingFilenames(proto, filename_map) ==
  LET localize(event) ==
        IF ~IsMmapEvent(event) \/ event.filename \notin DOMAIN filename_map
        THEN event
        ELSE LET new_filename == filename_map[event.filename]
                 old_len == GetUint64AlignedStringLength(Len(event.filename))
                 new_len == GetUint64AlignedStringLength(Len(new_filename))
             IN  [event EXCEPT !.filename = new_filename,
                               !.size = @ - old_len + new_len]
      rename(build_id) ==
        IF build_id.filename \in DOMAIN filename_map
        THEN [build_id EXCEPT !.filename = filename_map[@]]
        ELSE build_id
  IN  [proto EXCEPT !.events = [i \in DOMAIN @ |-> localize(@[i])],
                    !.build_ids = [i \in DOMAIN @ |-> rename(@[i])]]

\* The build ID entries whose perfized build ID is a key of the map.
LocalizedEntries(build_ids, build_ids_to_filenames) ==
  {i \in DOMAIN build_ids :
     PerfizeBuildIDString(build_ids[i].build_id_hash)
       \in DOMAIN build_ids_to_filenames}

\* filename_map[build_id.filename()] = new_filename, in the order of the
\* entries: a later entry overwrites an earlier one.
Localize(proto, build_ids_to_filenames) ==
  LET hits == LocalizedEntries(proto.build_ids, build_ids_to_filenames)
      of(f) == {i \in hits : proto.build_ids[i].filename = f}
      filename_map ==
        [f \in {proto.build_ids[i].filename : i \in hits} |->
           build_ids_to_filenames[
             PerfizeBuildIDString(proto.build_ids[Max(of(f))].build_id_hash)]]
  IN  LocalizeUsingFilenames(proto, filename_map)

\* (*filenames_to_build_ids)[build_id.filename()] = new_build_id, in the
\* order of the entries.
GetFilenamesToBuildIDs(proto) ==
  LET of(f) == {i \in DOMAIN proto.build_ids : proto.build_ids[i].filename = f}
  IN  [f \in {proto.build_ids[i].filename : i \in DOMAIN proto.build_ids} |->
         PerfizeBuildIDString(proto.build_ids[Max(of(f))].build_id_hash)]

(* Inputs of SpecBuildIdStore *)

MaxStoreEvents == 2
MaxStoreBuildIds == 2
MaxStoreCalls == 1

StoreFilenames == Range(SortedFilenames)

\* Names given to local copies of the files.
LocalFilenames == {"/bin/ls.local", "/tmp/c"}

\* Size of an MMAP or MMAP2 event without its filename.
MmapFixedSize(type) == IF type = "PERF_RECORD_MMAP" THEN 40 ELSE 72

\* Build ID strings given to InjectBuildIDs: 20 bytes without and with
\* trailing zero bytes, and one of a single byte.
InjectedBuildIds ==
  {[i \in 1..kBuildIDStringLength |-> "f"],
   <<"f", "f">> \o Zeroes(kBuildIDStringLength - 2),
   <<"0", "f">>}

\* Build IDs read from a file are stored by SerializeBuildIDEvent.
StoreBuildIds ==
  {SerializeBuildIDEvent(
     [filename |-> f, misc |-> {"USER"},
      build_id |-> PerfizeBuildIDString(id)]) :
     f \in StoreFilenames, id \in InjectedBuildIds \ {<<"0", "f">>}}

StoreEvents ==
  {[type |-> "PERF_RECORD_SAMPLE", misc |-> {"USER"}, filename |-> "",
    size |-> 48]}
  \cup {[type |-> "PERF_RECORD_MMAP", misc |-> misc, filename |-> f,
         size |-> MmapFixedSize("PERF_RECORD_MMAP")
                    + GetUint64AlignedStringLength(Len(f))] :
          f \in StoreFilenames, misc \in {{"KERNEL"}, {"USER"}}}
  \cup {[type |-> "PERF_RECORD_MMAP2", misc |-> {"USER"}, filename |-> f,
         size |-> MmapFixedSize("PERF_RECORD_MMAP2")
                    + GetUint64AlignedStringLength(Len(f))] :
          f \in {"/lib/c.so"}}

StoreProtos ==
  {[events |-> evs, build_ids |-> ids,
    metadata_mask |-> IF ids = <<>> THEN {} ELSE {HEADER_BUILD_ID}] :
     evs \in SeqsUpTo(StoreEvents, MaxStoreEvents),
     ids \in SeqsUpTo(StoreBuildIds, MaxStoreBuildIds)}

FilenamesToBuildIds ==
  UNION {[S -> InjectedBuildIds] : S \in SUBSET StoreFilenames}

BuildIdsToFilenames ==
  UNION {[S -> LocalFilenames] :
           S \in SUBSET {PerfizeBuildIDString(id) : id \in InjectedBuildIds}}

NoCall == [op |-> "none", arg |-> [f \in {} |-> ""], n |-> 0]

StoreStart ==
  /\ store_proto = [events |-> <<>>, build_ids |-> <<>>, metadata_mask |-> {}]
  /\ store_before = store_proto
  /\ store_call = NoCall

\* A reader that has read a file with attributes, evs and build IDs.
StoreInit ==
  /\ store_proto \in StoreProtos
  /\ store_before = store_proto
  /\ store_call = NoCall

\* reader.InjectBuildIDs(filenames_to_build_ids)
CallInjectBuildIDs(filenames_to_build_ids) ==
  /\ store_call.n < MaxStoreCalls
  /\ store_before' = store_proto
  /\ store_proto' = InjectBuildIDs(store_proto, filenames_to_build_ids)
  /\ store_call' = [op |-> "InjectBuildIDs", arg |-> filenames_to_build_ids,
                    n |-> store_call.n + 1]
  /\ UNCHANGED nonStoreVars

\* reader.Localize(build_ids_to_filenames)
CallLocalize(build_ids_to_filenames) ==
  /\ store_call.n < MaxStoreCalls
  /\ store_before' = store_proto
  /\ store_proto' = Localize(store_proto, build_ids_to_filenames)
  /\ store_call' = [op |-> "Localize", arg |-> build_ids_to_filenames,
                    n |-> store_call.n + 1]
  /\ UNCHANGED nonStoreVars

StoreNext ==
  \/ \E m \in FilenamesToBuildIds : CallInjectBuildIDs(m)
  \/ \E m \in BuildIdsToFilenames : CallLocalize(m)

----------------------------------------------------------------------------
(* Byte layout of a normal-mode file: the section checks of ReadHeader,     *)
(* ReadFileData and ReadMetadata, and the event loop of ReadDataSection.    *)
(* Offsets and sizes are unsigned words of kWordBits bits.                  *)

kWordBits == 6

U64(x) == x % (2 ^ kWordBits)

\* The sum of offset and size is compared with the size of the data instead.
ReadPerfFileSection_WrappedSum(data_size, section) ==
  ~(U64(section.offset + section.size) > data_size)

\* The checks of ReadPerfFileSection on a section that has been read.
ReadPerfFileSection(data_size, section) ==
  /\ ~(section.offset > data_size)
  /\ ~(section.size > data_size - section.offset)

\* The event header that the 8 bytes at position pos read as.
HeaderAt(file, pos) == file.words[pos \div kEventHeaderSize + 1]

\* ReadPerfEventHeader with the reader at position pos.
ReadPerfEventHeader(file, pos) ==
  /\ pos + kEventHeaderSize <= file.size
  /\ ~(HeaderAt(file, pos).size < kEventHeaderSize)
  /\ ~(HeaderAt(file, pos).size - kEventHeaderSize
         > file.size - (pos + kEventHeaderSize))

RECURSIVE ReadDataSectionFrom(_, _, _, _)
\* The loop of ReadDataSection with the reader at position pos: the header is
\* read, the rest of the event is read or skipped, and the size of the event
\* is taken from data_remaining_bytes.
ReadDataSectionFrom(file, pos, data_remaining_bytes, headers) ==
  IF data_remaining_bytes = 0
  THEN [ok |-> TRUE, header_positions |-> headers, tell |-> pos]
  ELSE IF ~ReadPerfEventHeader(file, pos)
  THEN [ok |-> FALSE,
        header_positions |->
          IF pos + kEventHeaderSize <= file.size THEN headers \cup {pos}
          ELSE headers,
        tell |-> pos]
  ELSE ReadDataSectionFrom(file, pos + HeaderAt(file, pos).size,
                           U64(data_remaining_bytes - HeaderAt(file, pos).size),
                           headers \cup {pos})

NotRead ==
  [done |-> FALSE, ok |-> FALSE, read_data_section |-> FALSE,
   header_positions |-> {}, tell |-> 0]

\* The reads of a normal-mode file that depend on its layout: the three
\* sections of the header (ReadHeader), the checks of ReadFileData, the
\* attrs and event types, the section table of the features (ReadMetadata),
\* and the data section.
ReadFileLayout(file) ==
  LET failed == [NotRead EXCEPT !.done = TRUE]
      header == <<file.attrs, file.data, file.event_types>>
  IN  IF \E i \in 1..3 : ~ReadPerfFileSection(file.size, header[i])
      THEN failed
      ELSE IF \E i \in 1..3 :
                U64(header[i].offset + header[i].size) > file.size
      THEN failed
      ELSE IF ~file.contents_ok THEN failed
      ELSE IF \E i \in DOMAIN file.features :
                ~ReadPerfFileSection(file.size, file.features[i])
      THEN failed
      ELSE LET r == ReadDataSectionFrom(file, file.data.offset,
                                        file.data.size, {})
           IN  [done |-> TRUE, ok |-> r.ok, read_data_section |-> TRUE,
                header_positions |-> r.header_positions, tell |-> r.tell]

(* Inputs of SpecLayout *)

MaxWords == 3

\* Offsets and sizes of sections, the largest of them near the largest word.
SectionValues == {0, kEventHeaderSize, 2 ^ kWordBits - kEventHeaderSize}

Sections == [offset : SectionValues, size : SectionValues]

\* Size fields of event headers: less than a header, a header alone, and
\* events with a payload.
HeaderWords ==
  [size : {0, kEventHeaderSize, 2 * kEventHeaderSize, 3 * kEventHeaderSize}]

\* Files of events without payload whose sections vary.
SectionLayouts ==
  {[size |-> kEventHeaderSize * n,
    words |-> [i \in 1..n |-> [size |-> kEventHeaderSize]],
    attrs |-> a, data |-> d, event_types |-> t, features |-> f,
    contents_ok |-> TRUE] :
     n \in 1..MaxWords, a \in Sections, d \in Sections, t \in Sections,
     f \in SeqsUpTo(Sections, 1)}

\* Files with empty attrs and event types sections whose events vary; the
\* bytes after the data section read as event headers as well.
DataLayouts ==
  UNION {
    {[size |-> kEventHeaderSize * n, words |-> w,
      attrs |-> [offset |-> 0, size |-> 0], data |-> d,
      event_types |-> [offset |-> 0, size |-> 0], features |-> <<>>,
      contents_ok |-> c] :
       w \in [1..n -> HeaderWords],
       d \in [offset : {0, kEventHeaderSize},
              size : {kEventHeaderSize * k : k \in 0..n}],
       c \in BOOLEAN} : n \in 1..MaxWords}

Layouts == SectionLayouts \cup DataLayouts

LayoutStart ==
  /\ layout_file = [size |-> 0, words |-> <<>>,
                    attrs |-> [offset |-> 0, size |-> 0],
                    data |-> [offset |-> 0, size |-> 0],
                    event_types |-> [offset |-> 0, size |-> 0],
                    features |-> <<>>, contents_ok |-> FALSE]
  /\ layout_read = NotRead

LayoutInit ==
  /\ layout_file \in Layouts
  /\ layout_read = NotRead

\* reader.ReadFromData on a buffer with a normal-mode header
ReadLayout ==
  /\ ~layout_read.done
  /\ layout_read' = ReadFileLayout(layout_file)
  /\ UNCHANGED layout_file
  /\ UNCHANGED nonLayoutVars

LayoutNext == ReadLayout

----------------------------------------------------------------------------
(* Piped streams, one record at a time (perf_reader.cc) *)

MaxPipedRecords == 3

PipedAttr(ids, config, exclude_kernel) ==
  [sample_type |-> {"IP", "TID"}, ids |-> ids, sample_id_all |-> TRUE,
   config |-> config, exclude_kernel |-> exclude_kernel]

\* Attributes that repeat a first id with another config, repeat a config
\* with another id, carry an earlier first id in second place, or have no ids.
PipedAttrs ==
  { PipedAttr(<<1>>, 0, FALSE), PipedAttr(<<1>>, 1, FALSE),
    PipedAttr(<<2>>, 0, FALSE), PipedAttr(<<2, 1>>, 1, FALSE),
    PipedAttr(<<>>, 0, TRUE), PipedAttr(<<>>, 1, FALSE) }

EventDescs ==
  { << [attr |-> PipedAttr(<<1>>, 0, FALSE), name |-> "cycles"] >>,
    << [attr |-> PipedAttr(<<>>, 1, FALSE), name |-> "instructions"] >>,
    << [attr |-> PipedAttr(<<1>>, 0, FALSE), name |-> "cycles"],
       [attr |-> PipedAttr(<<1>>, 1, FALSE), name |-> "instructions"] >> }

Mmap2BuildIdRecord(misc, filename, build_id, build_id_size, len) ==
  [Record("PERF_RECORD_MMAP2", misc \cup {"MMAP_BUILD_ID"}, filename,
          build_id_size, len, NoAttr) EXCEPT !.build_id = build_id]

AuxtraceRecord(trace_size, following) ==
  [Record("PERF_RECORD_AUXTRACE", {}, "", 0, 0, NoAttr) EXCEPT
     !.size = 6 * kEventHeaderSize,   \* sizeof(struct auxtrace_event)
     !.trace_size = trace_size, !.following = following]

PipedRecords ==
  { Record("PERF_RECORD_HEADER_ATTR", {}, "", 0, 0, a) : a \in PipedAttrs } \cup
  { [Record("PERF_RECORD_HEADER_EVENT_TYPE", {}, "cycles", 0, 0, NoAttr)
       EXCEPT !.event_id = id] : id \in {0, 1} } \cup
  { [Record("PERF_RECORD_HEADER_FEATURE", {}, "", 0, 0, NoAttr)
       EXCEPT !.feat_id = HEADER_EVENT_DESC, !.event_desc = d] :
       d \in EventDescs } \cup
  { [Record("PERF_RECORD_HEADER_FEATURE", {}, "", 0, 0, NoAttr)
       EXCEPT !.feat_id = HEADER_BUILD_ID] } \cup
  { Mmap2BuildIdRecord({"USER"}, "/usr/lib/foo.so", "abcd", kMaxBuildIdSize, 1),
    Mmap2BuildIdRecord({"USER"}, "/usr/lib/foo.so", "ef01", kMaxBuildIdSize, 1),
    Mmap2BuildIdRecord({"USER"}, "/usr/lib/foo.so", "abcd", kMaxBuildIdSize + 1, 1),
    Mmap2BuildIdRecord({"USER"}, "/usr/lib/bar.so", "abcd", kMaxBuildIdSize, 1),
    Mmap2BuildIdRecord({"KERNEL"}, "[kernel.kallsyms]_text", "abcd",
                       kMaxBuildIdSize + 1, 0) } \cup
  { AuxtraceRecord(0, 0), AuxtraceRecord(16, 16), AuxtraceRecord(16, 8) } \cup
  { Record("PERF_RECORD_SAMPLE", {"USER"}, "", 0, 0, NoAttr),
    Record("PERF_RECORD_READ", {}, "", 0, 0, NoAttr) }

\* Event types the reader was told not to serialize.
SkipSets ==
  { {}, {"PERF_RECORD_MMAP2"}, {"PERF_RECORD_AUXTRACE"}, {"PERF_RECORD_SAMPLE"} }

NoRecord == Record("NONE", {}, "", 0, 0, NoAttr)

PipedStart ==
  /\ pipe_reader = NewReader
  /\ pipe_before = NewReader
  /\ pipe_record = NoRecord
  /\ pipe_n = 0
  /\ pipe_pc = "done"

\* The piped header has been read; the records follow it.
PipedInit ==
  /\ pipe_reader \in
       { BeginPipedData(
           [NewReader EXCEPT !.event_types_to_skip_when_serializing_ = skip]) :
           skip \in SkipSets }
  /\ pipe_before = pipe_reader
  /\ pipe_record = NoRecord
  /\ pipe_n = 0
  /\ pipe_pc = "reading"

\* The loop of ReadPipedData takes the next record of the stream.
ReadNextPipedRecord ==
  /\ pipe_pc = "reading"
  /\ pipe_reader.ok
  /\ pipe_n < MaxPipedRecords
  /\ \E ev \in PipedRecords :
       /\ pipe_reader' = ReadPipedRecord(pipe_reader, ev)
       /\ pipe_record' = ev
  /\ pipe_before' = pipe_reader
  /\ pipe_n' = pipe_n + 1
  /\ pipe_pc' = "reading"
  /\ UNCHANGED nonPipedVars

\* The stream has ended, or a record could not be read.
EndOfPipedData ==
  /\ pipe_pc = "reading"
  /\ pipe_reader' = FinishPipedData(pipe_reader)
  /\ pipe_before' = pipe_reader
  /\ pipe_record' = NoRecord
  /\ pipe_pc' = "done"
  /\ UNCHANGED <<pipe_n, nonPipedVars>>

PipedNext == ReadNextPipedRecord \/ EndOfPipedData

----------------------------------------------------------------------------
(* Where the attrs are read (perf_reader.cc).  Offsets and sizes are in     *)
(* words of 8 bytes: the type and size of a perf_event_attr are one word, a *)
(* perf_file_section is two, an id is one.                                  *)

\* Reads the perf_event_attr at pos, whose size field is attr_size.  A size
\* field below one word makes the length of the read wrap; the read of that
\* length is refused (checked) or runs over the input.
ReadEventAttr(input_size, pos, attr_size, checked) ==
  LET attr_offset == 1
      attr_readable_size == Min({attr_size, kPerfEventAttrWords})
  IN  IF pos + attr_offset > input_size
      THEN [ok |-> FALSE, tell |-> pos, overrun |-> FALSE]
      ELSE IF attr_readable_size < attr_offset
      THEN [ok |-> FALSE, tell |-> IF checked THEN pos + attr_offset ELSE input_size,
            overrun |-> ~checked]
      ELSE IF pos + attr_readable_size > input_size
      THEN [ok |-> FALSE, tell |-> pos + attr_offset, overrun |-> FALSE]
      ELSE IF pos + attr_size > input_size
      THEN [ok |-> FALSE, tell |-> pos + attr_readable_size, overrun |-> FALSE]
      ELSE [ok |-> TRUE, tell |-> pos + attr_size, overrun |-> FALSE]

\* ReadAttr for the attrs from index i on: the attr, then the section of its
\* ids; the ids are read where the section says and the reader comes back.
RECURSIVE ReadAttrs(_, _, _, _)
ReadAttrs(file, pos, i, starts) ==
  IF i > file.attrs.size \div file.attr_size
  THEN [ok |-> TRUE, starts |-> starts]
  ELSE LET attr == ReadEventAttr(file.size, pos, file.sizes[i], TRUE)
       IN  IF ~attr.ok \/ attr.tell + kFileSectionWords > file.size
           THEN [ok |-> FALSE, starts |-> Append(starts, pos)]
           ELSE ReadAttrs(file, attr.tell + kFileSectionWords, i + 1,
                          Append(starts, pos))

ReadAttrsSectionStarts(file) ==
  IF file.attr_size = 0 THEN [ok |-> FALSE, starts |-> <<>>]
  ELSE ReadAttrs(file, file.attrs.offset, 1, <<>>)

\* Reads num_ids ids, or as many as the input has.
ReadUniqueIDs(input_size, pos, num_ids) ==
  IF pos + num_ids > input_size
  THEN [ok |-> FALSE, tell |-> input_size]
  ELSE [ok |-> TRUE, tell |-> pos + num_ids]

\* The bytes ReadAttrEventBlock reads of a record whose payload has
\* block.size words, followed by block.following words of input.  num_ids is
\* -1 when it was not computed.
ReadAttrEventBlockBytes(block, checked) ==
  LET input_size == block.size + block.following
      attr == ReadEventAttr(input_size, 0, block.attr_size, checked)
      actual_attr_size == attr.tell
      num_ids == U64(block.size - actual_attr_size)
      ids == ReadUniqueIDs(input_size, attr.tell, num_ids)
  IN  IF ~attr.ok
      THEN [ok |-> FALSE, tell |-> attr.tell, num_ids |-> -1,
            overrun |-> attr.overrun]
      ELSE [ok |-> ids.ok, tell |-> ids.tell, num_ids |-> num_ids,
            overrun |-> FALSE]

\* ---- Inputs of SpecAttrBytes ----

MaxTableWords == 12
MaxAttrs2 == 2
MaxAttrSize == 5
MaxPayload == 4

\* file.sizes[i] is the size field that the i-th read of an attr finds.
AttrTables ==
  { [size |-> MaxTableWords, attrs |-> [offset |-> offset, size |-> n * attr_size],
     attr_size |-> attr_size, sizes |-> sizes] :
      offset \in 0..1, n \in 0..MaxAttrs2, attr_size \in 0..(MaxAttrSize + 1),
      sizes \in [1..MaxAttrs2 -> 1..MaxAttrSize] }

AttrBlocks ==
  { [size |-> size, attr_size |-> attr_size, following |-> following] :
      size \in 0..MaxPayload, attr_size \in 0..MaxAttrSize, following \in 0..2 }

NoStarts == [done |-> FALSE, ok |-> FALSE, starts |-> <<>>]

NoBlockResult ==
  [done |-> FALSE, ok |-> FALSE, tell |-> 0, num_ids |-> -1, overrun |-> FALSE]

NoTable ==
  [size |-> 0, attrs |-> [offset |-> 0, size |-> 0], attr_size |-> 0,
   sizes |-> <<>>]

NoBlock == [size |-> 0, attr_size |-> 0, following |-> 0]

AttrBytesStart ==
  /\ at_table = NoTable
  /\ at_starts = NoStarts
  /\ at_block = NoBlock
  /\ at_result = NoBlockResult

\* A file with an attrs section, or a piped HEADER_ATTR record.
AttrBytesInit ==
  /\ \/ at_table \in AttrTables /\ at_block = NoBlock
     \/ at_table = NoTable /\ at_block \in AttrBlocks
  /\ at_starts = NoStarts
  /\ at_result = NoBlockResult

\* ReadAttrsSection on the file.
ReadAttrsTable ==
  /\ ~at_starts.done
  /\ LET r == ReadAttrsSectionStarts(at_table)
     IN  at_starts' = [done |-> TRUE, ok |-> r.ok, starts |-> r.starts]
  /\ UNCHANGED <<at_table, at_block, at_result, nonAttrBytesVars>>

\* ReadAttrEventBlock on the record.
ReadAttrBlock ==
  /\ ~at_result.done
  /\ \E checked \in BOOLEAN :
       LET r == ReadAttrEventBlockBytes(at_block, checked)
       IN  at_result' = [done |-> TRUE, ok |-> r.ok, tell |-> r.tell,
                         num_ids |-> r.num_ids, overrun |-> r.overrun]
  /\ UNCHANGED <<at_table, at_block, at_starts, nonAttrBytesVars>>

AttrBytesNext == ReadAttrsTable \/ ReadAttrBlock

----------------------------------------------------------------------------
(* SerializePerfEventAttr and DeserializePerfEventAttr                      *)
(* (perf_serializer.cc).  sample_period and sample_freq are one field of a  *)
(* perf_event_attr (a union), here sample_period; a field of the proto that *)
(* was not set reads as 0.                                                  *)

\* A new PerfDataProto_PerfEventAttr, as add_file_attrs()->mutable_attr()
\* gives it.
NewAttrProto == [freq |-> FALSE, sample_period |-> 0, sample_freq |-> 0]

\* The macro S(x) copies field x; freq is copied after the sampling value.
SerializePerfEventAttr(perf_event_attr, perf_event_attr_proto) ==
  LET p1 == IF perf_event_attr_proto.freq
            THEN [perf_event_attr_proto EXCEPT
                    !.sample_freq = perf_event_attr.sample_period]
            ELSE [perf_event_attr_proto EXCEPT
                    !.sample_period = perf_event_attr.sample_period]
  IN  [p1 EXCEPT !.freq = perf_event_attr.freq]

\* The attr is zeroed first; freq is copied after the sampling value.
DeserializePerfEventAttr(perf_event_attr_proto) ==
  LET a0 == [freq |-> FALSE, sample_period |-> 0]
      a1 == IF a0.freq
            THEN [a0 EXCEPT !.sample_period = perf_event_attr_proto.sample_freq]
            ELSE [a0 EXCEPT !.sample_period = perf_event_attr_proto.sample_period]
  IN  [a1 EXCEPT !.freq = perf_event_attr_proto.freq]

\* ---- Inputs of SpecAttrProto ----

MaxSample == 3

SampledAttrs ==
  { [freq |-> freq, sample_period |-> v] : freq \in BOOLEAN, v \in 0..MaxSample }

\* Protos as a serializer that follows the freq flag stores them.
StoredProtos ==
  { [freq |-> FALSE, sample_period |-> v, sample_freq |-> 0] : v \in 0..MaxSample }
  \cup { [freq |-> TRUE, sample_period |-> 0, sample_freq |-> v] : v \in 0..MaxSample }

NoSampledAttr == [freq |-> FALSE, sample_period |-> 0]

AttrProtoStart ==
  /\ ap_attr = NoSampledAttr
  /\ ap_proto = NewAttrProto
  /\ ap_attr2 = NoSampledAttr
  /\ ap_pc = "deserialized"

AttrProtoInit ==
  /\ ap_attr \in SampledAttrs
  /\ ap_proto \in StoredProtos
  /\ ap_attr2 = NoSampledAttr
  /\ ap_pc = "start"

\* The attr is serialized into a new proto.
SerializeAttr ==
  /\ ap_pc = "start"
  /\ ap_proto' = SerializePerfEventAttr(ap_attr, NewAttrProto)
  /\ ap_pc' = "serialized"
  /\ UNCHANGED <<ap_attr, ap_attr2, nonAttrProtoVars>>

\* The proto, a stored one or the one just serialized, is deserialized.
DeserializeAttr ==
  /\ ap_pc \in {"start", "serialized"}
  /\ ap_attr2' = DeserializePerfEventAttr(ap_proto)
  /\ ap_pc' = IF ap_pc = "start" THEN "deserialized_stored" ELSE "deserialized"
  /\ UNCHANGED <<ap_attr, ap_proto, nonAttrProtoVars>>

AttrProtoNext == SerializeAttr \/ DeserializeAttr

----------------------------------------------------------------------------
(* WriteData on an event whose content has changed (perf_reader.cc,        *)
(* perf_serializer.cc)                                                      *)

\* sizeof(struct comm_event) less its comm array: the header, pid and tid.
kCommEventFixedSize == 16

\* sizeof(struct fork_event)
kForkEventSize == 32

\* The size of the event without its sample info: for a COMM event the fixed
\* part and the comm string with its terminator, extended to 8 bytes.
GetEventDataSize(event) ==
  IF event.type = "PERF_RECORD_COMM"
  THEN kCommEventFixedSize + GetUint64AlignedStringLength(Len(event.comm))
  ELSE IF event.type = "PERF_RECORD_FORK" THEN kForkEventSize
  ELSE 0

\* event.sample_size is what the SampleInfoReader of the event gives as the
\* size of its sample info.
GetEventSize(event) ==
  IF GetEventDataSize(event) = 0 THEN 0
  ELSE GetEventDataSize(event) + event.sample_size

\* The header.size of the event_t that DeserializeEvent builds: the size of
\* the proto's header, recomputed for a COMM event.
DeserializeEvent(event) ==
  IF event.type = "PERF_RECORD_COMM" THEN GetEventSize(event) ELSE event.size

\* WriteData for one event: whether it succeeds and the header.size of the
\* event it writes.
WriteDataEvent(event) ==
  LET expected_size == GetEventSize(event)
  IN  IF expected_size = 0 THEN [ok |-> FALSE, size |-> 0]
      ELSE IF event.size # expected_size THEN [ok |-> FALSE, size |-> 0]
      ELSE [ok |-> TRUE, size |-> DeserializeEvent(event)]

\* ---- Inputs of SpecWriteData ----

MaxSampleWords == 2

\* Comm strings of 0, 1, 7, 8 and 15 characters.
Comms == {"", "a", "abcdefg", "abcdefgh", "abcdefghijklmno"}

\* Events as a read stores them: header.size is the size of the content.
ReadEvents ==
  { [type |-> type, comm |-> comm, sample_size |-> 8 * n,
     size |-> GetEventSize([type |-> type, comm |-> comm, sample_size |-> 8 * n])] :
      type \in {"PERF_RECORD_COMM", "PERF_RECORD_FORK"}, comm \in Comms,
      n \in 0..MaxSampleWords }

NoEvent == [type |-> "NONE", comm |-> "", sample_size |-> 0, size |-> 0]

NotWrittenEvent == [ok |-> FALSE, size |-> 0]

WriteDataStart ==
  /\ wd_event = NoEvent
  /\ wd_written = NotWrittenEvent
  /\ wd_pc = "written"

WriteDataInit ==
  /\ wd_event \in ReadEvents
  /\ wd_written = NotWrittenEvent
  /\ wd_pc = "read"

\* The user of the proto replaces the comm string of the event.
ReplaceComm ==
  /\ wd_pc = "read"
  /\ wd_event.type = "PERF_RECORD_COMM"
  /\ \E comm \in Comms \ {wd_event.comm} :
       wd_event' = [wd_event EXCEPT !.comm = comm]
  /\ wd_pc' = "changed"
  /\ UNCHANGED <<wd_written, nonWriteDataVars>>

\* PerfReader::WriteData on the event.
WriteEvent ==
  /\ wd_pc \in {"read", "changed"}
  /\ wd_written' = WriteDataEvent(wd_event)
  /\ wd_pc' = "written"
  /\ UNCHANGED <<wd_event, nonWriteDataVars>>

WriteDataNext == ReplaceComm \/ WriteEvent

----------------------------------------------------------------------------
(* Specifications *)

SerStart ==
  /\ serializer_ = NewSerializer
  /\ file_attrs = <<>>
  /\ attr_ok = TRUE
  /\ lookup = NoLookup

SortStart ==
  /\ events = <<>>
  /\ sort_attrs = <<>>
  /\ events_before = <<>>
  /\ parsed_events = <<>>
  /\ sort_pc = "reading"

ParserStart ==
  /\ do_remap = FALSE
  /\ parser_events = <<>>
  /\ process_mappers_ = [pid \in Pids |-> {}]
  /\ remap_next = [pid \in Pids |-> 0]
  /\ stats = NoStats

SerInit == SerStart /\ SortStart /\ ParserStart /\ ReaderStart /\ BuildIdStart /\ HugePageStart /\ StoreStart /\ LayoutStart /\ PipedStart /\ AttrBytesStart /\ AttrProtoStart /\ WriteDataStart

SerNext ==
  \/ \E attr \in Attrs : ReadAttr(attr)
  \/ \E event \in SerEvents : ReadPerfSampleInfoAndType(event)

SpecSerializer == SerInit /\ [][SerNext]_vars

SortInit == SerStart /\ SortStart /\ ParserStart /\ ReaderStart /\ BuildIdStart /\ HugePageStart /\ StoreStart /\ LayoutStart /\ PipedStart /\ AttrBytesStart /\ AttrProtoStart /\ WriteDataStart

SortNext ==
  \/ \E st \in SortSampleTypes : SortAddAttr(st)
  \/ \E type \in SortEventTypes, time \in 0..MaxTime : SortReadEvent(type, time)
  \/ SortEvents
  \/ \E sort_events_by_time \in BOOLEAN : ParseRawEvents(sort_events_by_time)

SpecSort == SortInit /\ [][SortNext]_vars

ParserNext ==
  \/ \E ev \in MmapEvents : MapMmapEvent(ev)
  \/ \E ev \in SampleEvents : MapSampleEvent(ev)

SpecParserInit == SerStart /\ SortStart /\ ParserInit /\ ReaderStart /\ BuildIdStart /\ HugePageStart /\ StoreStart /\ LayoutStart /\ PipedStart /\ AttrBytesStart /\ AttrProtoStart /\ WriteDataStart

SpecParser == SpecParserInit /\ [][ParserNext]_vars

SpecReaderInit == SerStart /\ SortStart /\ ParserStart /\ ReaderInit /\ BuildIdStart /\ HugePageStart /\ StoreStart /\ LayoutStart /\ PipedStart /\ AttrBytesStart /\ AttrProtoStart /\ WriteDataStart

SpecReader == SpecReaderInit /\ [][ReaderNext]_vars

SpecBuildIdInit == SerStart /\ SortStart /\ ParserStart /\ ReaderStart /\ BuildIdInit /\ HugePageStart /\ StoreStart /\ LayoutStart /\ PipedStart /\ AttrBytesStart /\ AttrProtoStart /\ WriteDataStart

SpecBuildId == SpecBuildIdInit /\ [][BuildIdNext]_vars

SpecHugePageInit == SerStart /\ SortStart /\ ParserStart /\ ReaderStart /\ BuildIdStart /\ HugePageInit /\ StoreStart /\ LayoutStart /\ PipedStart /\ AttrBytesStart /\ AttrProtoStart /\ WriteDataStart

SpecHugePage == SpecHugePageInit /\ [][HugePageNext]_vars

SpecBuildIdStoreInit == SerStart /\ SortStart /\ ParserStart /\ ReaderStart /\ BuildIdStart /\ HugePageStart /\ StoreInit /\ LayoutStart /\ PipedStart /\ AttrBytesStart /\ AttrProtoStart /\ WriteDataStart

SpecBuildIdStore == SpecBuildIdStoreInit /\ [][StoreNext]_vars

SpecLayoutInit == SerStart /\ SortStart /\ ParserStart /\ ReaderStart /\ BuildIdStart /\ HugePageStart /\ StoreStart /\ LayoutInit /\ PipedStart /\ AttrBytesStart /\ AttrProtoStart /\ WriteDataStart

SpecLayout == SpecLayoutInit /\ [][LayoutNext]_vars

SpecPipedInit == SerStart /\ SortStart /\ ParserStart /\ ReaderStart /\ BuildIdStart /\ HugePageStart /\ StoreStart /\ LayoutStart /\ PipedInit /\ AttrBytesStart /\ AttrProtoStart /\ WriteDataStart

SpecPiped == SpecPipedInit /\ [][PipedNext]_vars

SpecAttrBytesInit == SerStart /\ SortStart /\ ParserStart /\ ReaderStart /\ BuildIdStart /\ HugePageStart /\ StoreStart /\ LayoutStart /\ PipedStart /\ AttrBytesInit /\ AttrProtoStart /\ WriteDataStart

SpecAttrBytes == SpecAttrBytesInit /\ [][AttrBytesNext]_vars

SpecAttrProtoInit == SerStart /\ SortStart /\ ParserStart /\ ReaderStart /\ BuildIdStart /\ HugePageStart /\ StoreStart /\ LayoutStart /\ PipedStart /\ AttrBytesStart /\ AttrProtoInit /\ WriteDataStart

SpecAttrProto == SpecAttrProtoInit /\ [][AttrProtoNext]_vars

SpecWriteDataInit == SerStart /\ SortStart /\ ParserStart /\ ReaderStart /\ BuildIdStart /\ HugePageStart /\ StoreStart /\ LayoutStart /\ PipedStart /\ AttrBytesStart /\ AttrProtoStart /\ WriteDataInit

SpecWriteData == SpecWriteDataInit /\ [][WriteDataNext]_vars

----------------------------------------------------------------------------
(* Properties of SpecSerializer *)

\* C10: when no registered attr has PERF_SAMPLE_ID or PERF_SAMPLE_IDENTIFIER
\* in its sample_type and more than one attr is registered, an event that
\* needs a sample info reader gets none (the parse fails); the reader never
\* picks one of the attrs by guessing.
C10_AmbiguousLookupFails ==
  ( /\ lookup.done
    /\ Len(file_attrs) > 1
    /\ \A i \in 1..Len(file_attrs) :
         file_attrs[i].sample_type \cap {"ID", "IDENTIFIER"} = {} )
  => ~lookup.reader.found

\* Ids an attr registers a sample info reader for (id 0 when it has none).
RegisteredIds(attr) == IF attr.ids = <<>> THEN {0} ELSE Range(attr.ids)

\* The last lookup was for a SAMPLE whose sample info array holds an id at
\* the position the attrs fix.
SampleCarriesId ==
  /\ lookup.done
  /\ lookup.type = "PERF_RECORD_SAMPLE"
  /\ serializer_.sample_event_id_pos_.kind = "At"
  /\ Len(lookup.array) > serializer_.sample_event_id_pos_.pos

CarriedId == lookup.array[serializer_.sample_event_id_pos_.pos + 1]

\* C11: for every SAMPLE that carries an id (the value 0 included) the
\* sample info reader chosen for it belongs to an attr that registered that
\* id, and a SAMPLE carrying an id that no attr registered gets no reader
\* (the read fails).
C11_IdLookup ==
  SampleCarriesId =>
    IF \E i \in 1..Len(file_attrs) : CarriedId \in RegisteredIds(file_attrs[i])
    THEN /\ lookup.reader.found
         /\ \E i \in 1..Len(file_attrs) :
              /\ CarriedId \in RegisteredIds(file_attrs[i])
              /\ lookup.reader.sample_type = file_attrs[i].sample_type
    ELSE ~lookup.reader.found

\* Number of the listed sample_type bits that are set.
CountPresent(sample_type, bits) == Cardinality(sample_type \cap bits)

\* The positions the first attr fixes, and every accepted attr agrees with.
PositionsAre(SamplePos(_), OtherPos(_)) ==
  /\ Len(file_attrs) >= 1 =>
       /\ serializer_.sample_event_id_pos_ = SamplePos(file_attrs[1].sample_type)
       /\ serializer_.other_event_id_pos_ = OtherPos(file_attrs[1].sample_type)
  /\ attr_ok =>
       \A i \in 1..Len(file_attrs) :
         /\ serializer_.sample_event_id_pos_ = SamplePos(file_attrs[i].sample_type)
         /\ serializer_.other_event_id_pos_ = OtherPos(file_attrs[i].sample_type)

OtherIdPosByCount(st) ==
  IF "IDENTIFIER" \in st THEN At(1)
  ELSE IF "ID" \in st THEN At(1 + CountPresent(st, {"CPU", "STREAM_ID"}))
  ELSE NotPresent

SampleIdPosOnePlusCount(st) ==
  IF "IDENTIFIER" \in st THEN At(0)
  ELSE IF "ID" \in st THEN At(1 + CountPresent(st, {"IP", "TID", "TIME", "ADDR"}))
  ELSE NotPresent

SampleIdPosByCount(st) ==
  IF "IDENTIFIER" \in st THEN At(0)
  ELSE IF "ID" \in st THEN At(CountPresent(st, {"IP", "TID", "TIME", "ADDR"}))
  ELSE NotPresent

\* C18 as stated: with PERF_SAMPLE_IDENTIFIER the positions are 0 and 1;
\* else with PERF_SAMPLE_ID sample_id_pos = 1 + count(IP, TID, TIME, ADDR)
\* and other_id_pos = 1 + count(CPU, STREAM_ID); else both are not present.
C18_EventIdPositionsOnePlus ==
  PositionsAre(SampleIdPosOnePlusCount, OtherIdPosByCount)

\* C18, amended: with PERF_SAMPLE_IDENTIFIER the positions are 0 and 1;
\* else with PERF_SAMPLE_ID sample_id_pos = count(IP, TID, TIME, ADDR)
\* (counted from 0 at the start of the sample array) and
\* other_id_pos = 1 + count(CPU, STREAM_ID) (counted from the end of the
\* array); else both are not present.
C18_EventIdPositions ==
  PositionsAre(SampleIdPosByCount, OtherIdPosByCount)

\* Two attrs with PERF_SAMPLE_ID, IP, TID, TIME and CPU were accepted and a
\* SAMPLE found its reader through the id at index 3.
C18_Witness ==
  /\ attr_ok
  /\ Len(file_attrs) = 2
  /\ file_attrs[1].sample_type = {"IP", "TID", "TIME", "ID", "CPU"}
  /\ serializer_.sample_event_id_pos_ = At(3)
  /\ serializer_.other_event_id_pos_ = At(2)
  /\ lookup.done /\ lookup.type = "PERF_RECORD_MMAP" /\ lookup.reader.found

----------------------------------------------------------------------------
(* Properties of SpecSort *)

AllAttrsHaveTime == \A i \in 1..Len(sort_attrs) : "TIME" \in sort_attrs[i]

\* Position of the event object e in the list s.
PosIn(s, e) == CHOOSE i \in 1..Len(s) : s[i].uid = e.uid

\* out is the stable sort of in by timestamp.
IsStableSortOf(out, in) ==
  /\ Len(out) = Len(in)
  /\ Range(out) = Range(in)
  /\ \A i, j \in 1..Len(out) :
       i < j => /\ out[i].timestamp <= out[j].timestamp
                /\ out[i].timestamp = out[j].timestamp
                     => PosIn(in, out[i]) < PosIn(in, out[j])

IsFinishedRound(e) == e.type = "PERF_RECORD_FINISHED_ROUND"

\* C6: after MaybeSortEventsByTime, if every attr's sample_type has
\* PERF_SAMPLE_TIME the event list is the stable sort by timestamp of the
\* list before the call (ordered, ties in their previous order, same
\* events); if some attr lacks PERF_SAMPLE_TIME the list is unchanged.
C6_MaybeSortIsStableSort ==
  sort_pc \in {"sorted", "parsed_sorted"} =>
    IF AllAttrsHaveTime
    THEN IsStableSortOf(events, events_before)
    ELSE events = events_before

\* A sort that moved events and had a tie to keep in order.
C6_Witness ==
  /\ sort_pc = "sorted"
  /\ sort_attrs # <<>>
  /\ AllAttrsHaveTime
  /\ events # events_before
  /\ \E i, j \in 1..Len(events) :
       i < j /\ events[i].timestamp = events[j].timestamp

\* C7 as stated: after ParseRawEvents the parser's output has no
\* FINISHED_ROUND and has every other event exactly once, and the time sort
\* leaves every FINISHED_ROUND record at the position it had.
C7_FinishedRoundNotMoved ==
  sort_pc \in {"parsed", "parsed_sorted"} =>
    /\ \A i \in 1..Len(parsed_events) : ~IsFinishedRound(parsed_events[i])
    /\ \A e \in Range(events_before) :
         ~IsFinishedRound(e) =>
           Cardinality({ i \in 1..Len(parsed_events) : parsed_events[i] = e }) = 1
    /\ \A i \in 1..Len(events_before) :
         IsFinishedRound(events_before[i]) => events[i] = events_before[i]

\* C7, amended: after ParseRawEvents the parser's output has no
\* FINISHED_ROUND and has every other event exactly once; a FINISHED_ROUND
\* record has timestamp 0, so when the time sort runs it is moved ahead of
\* every event with a later timestamp, the FINISHED_ROUND records keeping
\* their order among themselves.
C7_FinishedRoundDropped ==
  sort_pc \in {"parsed", "parsed_sorted"} =>
    /\ \A i \in 1..Len(parsed_events) : ~IsFinishedRound(parsed_events[i])
    /\ \A e \in Range(events_before) :
         ~IsFinishedRound(e) =>
           Cardinality({ i \in 1..Len(parsed_events) : parsed_events[i] = e }) = 1
    /\ Len(parsed_events) =
         Cardinality({ e \in Range(events_before) : ~IsFinishedRound(e) })
    /\ SelectSeq(events, IsFinishedRound) = SelectSeq(events_before, IsFinishedRound)
    /\ (sort_pc = "parsed_sorted" /\ AllAttrsHaveTime) =>
         \A i, j \in 1..Len(events) :
           (IsFinishedRound(events[i]) /\ events[j].timestamp > 0) => i < j

\* The sort has run on a list where a FINISHED_ROUND followed a timestamped
\* event, as in HandlesFinishedRoundEventsAndSortsByTime.
C7_Witness ==
  /\ sort_pc = "parsed_sorted"
  /\ sort_attrs # <<>>
  /\ AllAttrsHaveTime
  /\ \E i, j \in 1..Len(events_before) :
       /\ i < j
       /\ events_before[i].timestamp > 0
       /\ IsFinishedRound(events_before[j])
  /\ Len(parsed_events) >= 2

----------------------------------------------------------------------------
(* Properties of SpecParser *)

IsMmapAt(k) == parser_events[k].raw.type = "PERF_RECORD_MMAP"

IsSampleAt(k) == parser_events[k].raw.type = "PERF_RECORD_SAMPLE"

\* The MMAP record m covers addr for process pid.
RawCovers(m, pid, addr) ==
  m.pid = pid /\ m.start <= addr /\ addr < m.start + m.len

\* Indexes of the MMAP records in positions lo+1 .. hi-1 that cover addr
\* for pid.
MmapsBetween(lo, hi, pid, addr) ==
  { j \in (lo + 1)..(hi - 1) :
      IsMmapAt(j) /\ RawCovers(parser_events[j].raw, pid, addr) }


NumWhere(P(_)) == Cardinality({ k \in 1..Len(parser_events) : P(k) })

IsMappedSampleAt(k) == IsSampleAt(k) /\ parser_events[k].out.mapped

\* C2: a SAMPLE whose IP lies inside a live mapping m of its process is
\* stamped (m.filename, m.file_offset + (ip - m.start)); a SAMPLE whose IP
\* lies in no mapping gets no DSO and is not counted in
\* num_sample_events_mapped.
C2_SampleResolution ==
  /\ \A k \in 1..Len(parser_events) :
       IsSampleAt(k) =>
         LET s == parser_events[k].raw
             o == parser_events[k].out
             own == MmapsBetween(0, k, s.pid, s.ip)
             kern == MmapsBetween(0, k, kKernelPid, s.ip)
         IN  /\ own # {} =>
                  LET m == parser_events[Max(own)].raw
                  IN  /\ o.mapped
                      /\ o.dso_name = m.filename
                      /\ o.offset = m.pgoff + (s.ip - m.start)
             /\ (own = {} /\ kern = {}) =>
                  (~o.mapped /\ o.dso_name = NoDso)
  /\ stats.num_sample_events = NumWhere(IsSampleAt)
  /\ stats.num_sample_events_mapped = NumWhere(IsMappedSampleAt)

\* A sample resolved at a non-zero distance into a mapping with a non-zero
\* file offset, and an unmapped sample, in one run.
C2_Witness ==
  /\ \E k \in 1..Len(parser_events) :
       /\ IsSampleAt(k)
       /\ parser_events[k].out.dso_name = "/usr/lib/bar.so"
       /\ parser_events[k].out.offset > MaxPgoff
  /\ \E k \in 1..Len(parser_events) :
       IsSampleAt(k) /\ ~parser_events[k].out.mapped
  /\ stats.num_sample_events_mapped = 1

\* C3: after any sequence of MMAP insertions, overlapping ones included,
\* the live mapping intervals of every pid are pairwise disjoint.
C3_MappingsDisjoint ==
  \A pid \in Pids :
    \A p, q \in process_mappers_[pid] :
      /\ p.lo < p.hi
      /\ p # q => (p.hi <= q.lo \/ q.hi <= p.lo)

\* Two MMAP records of one pid overlapped and parts of both are live.
C3_Witness ==
  \E i, j \in 1..Len(parser_events) :
    /\ i < j
    /\ IsMmapAt(i) /\ IsMmapAt(j)
    /\ LET o == parser_events[i].raw
           n == parser_events[j].raw
       IN  /\ o.pid = n.pid
           /\ o.start < n.start + n.len
           /\ n.start < o.start + o.len
           /\ \E p, q \in process_mappers_[o.pid] : p.seq = i /\ q.seq = j

\* C4: when a mapping N is inserted for a pid and overlaps an older mapping
\* O, an address inside N resolves to N from then on (until a newer mapping
\* covers it), and O stays resolvable on the part of its range that N does
\* not cover, and only there.
C4_NewestMappingWins ==
  \A i, j, k \in 1..Len(parser_events) :
    ( /\ i < j /\ j < k
      /\ IsMmapAt(i) /\ IsMmapAt(j) /\ IsSampleAt(k)
      /\ parser_events[i].raw.pid = parser_events[j].raw.pid
      /\ parser_events[k].raw.pid = parser_events[j].raw.pid
      /\ parser_events[i].raw.start
           < parser_events[j].raw.start + parser_events[j].raw.len
      /\ parser_events[j].raw.start
           < parser_events[i].raw.start + parser_events[i].raw.len )
    => LET o == parser_events[i].raw
           n == parser_events[j].raw
           s == parser_events[k].raw
           r == parser_events[k].out
       IN  /\ ( RawCovers(n, s.pid, s.ip)
                /\ MmapsBetween(j, k, s.pid, s.ip) = {} )
               => ( r.mapped /\ r.dso_name = n.filename
                    /\ r.offset = n.pgoff + (s.ip - n.start) )
           /\ ( RawCovers(o, s.pid, s.ip) /\ ~RawCovers(n, s.pid, s.ip)
                /\ MmapsBetween(i, k, s.pid, s.ip) = {} )
               => ( r.mapped /\ r.dso_name = o.filename
                    /\ r.offset = o.pgoff + (s.ip - o.start) )

\* N landed inside O's range and a later sample hit the part of O that N
\* left uncovered.
C4_Witness ==
  /\ Len(parser_events) = 3
  /\ IsMmapAt(1) /\ IsMmapAt(2) /\ IsSampleAt(3)
  /\ LET o == parser_events[1].raw
         n == parser_events[2].raw
         s == parser_events[3].raw
     IN  /\ o.pid = n.pid /\ s.pid = o.pid
         /\ o.filename # n.filename
         /\ o.start < n.start
         /\ n.start + n.len <= o.start + o.len
         /\ RawCovers(o, s.pid, s.ip) /\ ~RawCovers(n, s.pid, s.ip)
         /\ parser_events[3].out.dso_name = o.filename

RECURSIVE LensBefore(_, _)
\* Sum of the lengths of the MMAP records of pid at positions 1..k.
LensBefore(k, pid) ==
  IF k = 0 THEN 0
  ELSE LensBefore(k - 1, pid)
       + ( IF IsMmapAt(k) /\ parser_events[k].raw.pid = pid
           THEN parser_events[k].raw.len ELSE 0 )

C8_LivenessFollowsEventOrder ==
  \A k \in 1..Len(parser_events) :
    IsSampleAt(k) =>
      LET s == parser_events[k].raw
          o == parser_events[k].out
          earlier == MmapsBetween(0, k, s.pid, s.ip)
                       \cup MmapsBetween(0, k, kKernelPid, s.ip)
      IN  /\ o.mapped <=> (earlier # {})
          /\ ~o.mapped => o.dso_name = NoDso
          /\ o.mapped =>
               \E j \in earlier : o.dso_name = parser_events[j].raw.filename

\* The sample came too early for the mapping, the same sample after the
\* MMAP record is mapped to it.
C8_Witness ==
  /\ Len(parser_events) = 3
  /\ IsSampleAt(1) /\ IsMmapAt(2) /\ IsSampleAt(3)
  /\ parser_events[1].raw = parser_events[3].raw
  /\ RawCovers(parser_events[2].raw, parser_events[1].raw.pid,
               parser_events[1].raw.ip)
  /\ ~parser_events[1].out.mapped
  /\ parser_events[3].out.mapped
  /\ parser_events[3].out.dso_name = parser_events[2].raw.filename

----------------------------------------------------------------------------
(* Properties of SpecReader *)

ValidMagic(f) == f.magic \in {kPerfMagic, kPerfMagicSwapped}

\* C9: after a valid magic, a header size of 16 selects piped mode and a
\* header size of 104 (with the rest of that header readable) selects normal
\* mode; for every other header size, and for a magic that is neither the
\* tag nor its byte swap, ReadFromData fails and parses no event.
C9_ContainerDispatch ==
  reader_pc # "start" =>
    /\ (ValidMagic(bytes) /\ bytes.size = kPipedHeaderSize)
         => reader.mode = "piped"
    /\ (ValidMagic(bytes) /\ bytes.size = kFileHeaderSize /\ bytes.intact)
         => reader.mode = "normal"
    /\ (~ValidMagic(bytes) \/ bytes.size \notin {kPipedHeaderSize, kFileHeaderSize})
         => /\ ~reader.ok
            /\ reader.mode = "none"
            /\ reader.proto_.events = <<>>
            /\ reader.proto_.file_attrs = <<>>

\* A readable header with a good magic and a size that is neither 16 nor
\* 104 has been rejected.
C9_Witness ==
  /\ reader_pc = "read"
  /\ bytes.magic = kPerfMagic
  /\ bytes.size = kFileHeaderSize + 8
  /\ bytes.intact
  /\ bytes.data # <<>>
  /\ ~reader.ok

\* The reader keeps nothing of this record: its type is not supported, it is
\* a /proc/PID/maps timeout mmap, or a zero-length kernel mmap of a capture
\* that excluded the kernel.
DroppedByReader(f, ev) ==
  \/ ~IsSupportedKernelEventType(ev.type) /\ ~IsSupportedUserEventType(ev.type)
  \/ IsProcMapTimeoutMmap(ev)
  \/ /\ ev.type \in {"PERF_RECORD_MMAP", "PERF_RECORD_MMAP2"}
     /\ f.attrs # <<>>
     /\ f.attrs[1].exclude_kernel
     /\ "KERNEL" \in ev.misc
     /\ ev.len = 0

\* The input is a native-endian file in normal mode that uses only features
\* the writer supports and has nothing the writer drops.
WriterSupported(f) ==
  /\ f.magic = kPerfMagic
  /\ f.size = kFileHeaderSize
  /\ ~f.extra_padding
  /\ f.adds_features \subseteq kSupportedMetadataMask
  /\ \A i \in 1..Len(f.data) : ~DroppedByReader(f, f.data[i])

\* C1: for every input that is read successfully, write(read(bytes)) = bytes
\* when the input uses only writer-supported features and has no
\* writer-dropped padding; for any other successfully read input the written
\* bytes read back to the same model, read(write(read(bytes))) = read(bytes).
C1_RoundTrip ==
  /\ (reader_pc \in {"written", "reread"} /\ WriterSupported(bytes))
       => (written.ok /\ written.file = bytes)
  /\ (reader_pc \in {"written", "reread"} /\ ~WriterSupported(bytes))
       => written.ok
  /\ (reader_pc = "reread" /\ ~WriterSupported(bytes))
       => (reader2.ok /\ reader2.proto_ = reader.proto_)

----------------------------------------------------------------------------
(* Properties of SpecBuildId *)

AllZeroes(s) == \A i \in 1..Len(s) : s[i] = "0"

\* C17: the trimmed string is the input without its trailing groups of 8
\* '0' characters: what was removed is a whole number of groups of zeroes,
\* and the result is shorter than 8 characters or its last 8 characters are
\* not all '0' ("00000000" becomes "", "0000000" is unchanged); trimming the
\* result again changes nothing.
C17_TrimZeroes ==
  /\ buildid_pc \in {"trimmed", "trimmed_twice"} =>
       LET n == Len(build_id_string)
           k == Len(trimmed)
       IN  /\ k <= n
           /\ trimmed = SubSeq(build_id_string, 1, k)
           /\ (n - k) % 8 = 0
           /\ AllZeroes(SubSeq(build_id_string, k + 1, n))
           /\ \/ k < 8
              \/ ~AllZeroes(SubSeq(trimmed, k - 7, k))
           /\ (build_id_string = [i \in 1..8 |-> "0"] => trimmed = <<>>)
           /\ (build_id_string = [i \in 1..7 |-> "0"] => trimmed = build_id_string)
  /\ buildid_pc = "trimmed_twice" => trimmed_twice = trimmed

\* Two groups of zeroes were removed one after the other, which left the
\* empty string, and the result was trimmed again.
C17_Witness ==
  /\ buildid_pc = "trimmed_twice"
  /\ Len(build_id_string) = 16
  /\ AllZeroes(build_id_string)
  /\ trimmed = <<>>

----------------------------------------------------------------------------
(* Properties of SpecHugePage *)

\* Both neighbours are mappings of one executable.
SameExecutable(p, n) == ~IsAnon(p) /\ ~IsAnon(n) /\ p.filename = n.filename

C12_WitnessAnonFirst ==
  /\ hp_pc = "deduced"
  /\ Len(hp_input) = 3
  /\ hp_input[1].pid # hp_input[2].pid
  /\ IsAnon(hp_input[2])
  /\ hp_deduced[2].filename = "/opt/google/chrome/chrome"
  /\ hp_deduced[2].pgoff = hp_input[3].pgoff - hp_input[2].len

\* new continues old: same process and file, adjacent in memory and in the
\* file.
Continues(old, new) ==
  /\ old.pid = new.pid
  /\ old.filename = new.filename
  /\ new.start = old.start + old.len
  /\ new.pgoff = old.pgoff + old.len

\* Positions of hp_deduced where a run of mappings that continue each other
\* starts.
RunStarts ==
  { i \in 1..Len(hp_deduced) : i = 1 \/ ~Continues(hp_deduced[i - 1], hp_deduced[i]) }

RunEnd(b) ==
  LET later == { j \in RunStarts : j > b }
  IN  IF later = {} THEN Len(hp_deduced) ELSE Min(later) - 1

RECURSIVE SumOfLens(_, _)
SumOfLens(lo, hi) ==
  IF lo > hi THEN 0 ELSE hp_deduced[lo].len + SumOfLens(lo + 1, hi)

----------------------------------------------------------------------------
(* Properties of SpecBuildIdStore *)

\* The build ID entries that the last call of InjectBuildIDs has added.
NewBuildIds ==
  {store_proto.build_ids[i] :
     i \in (Len(store_before.build_ids) + 1)..Len(store_proto.build_ids)}

\* C14: after InjectBuildIDs(m), GetFilenamesToBuildIDs returns the map it
\* returned before with every filename of m bound to m's build ID, in its
\* form of 40 hex digits, and every filename not in m bound as before.
C14_InjectOverrides ==
  store_call.op = "InjectBuildIDs" =>
    LET m == store_call.arg
        before == GetFilenamesToBuildIDs(store_before)
        after == GetFilenamesToBuildIDs(store_proto)
    IN  /\ DOMAIN after = DOMAIN before \cup DOMAIN m
        /\ \A f \in DOMAIN after :
             after[f] = IF f \in DOMAIN m THEN PerfizeBuildIDString(m[f])
                        ELSE before[f]

\* One call has replaced an observed build ID by a different one of 40
\* digits, has added a filename and has left a third filename alone.
C14_Witness ==
  /\ store_call.op = "InjectBuildIDs"
  /\ LET m == store_call.arg
         before == GetFilenamesToBuildIDs(store_before)
         after == GetFilenamesToBuildIDs(store_proto)
     IN  /\ \E f \in DOMAIN m \cap DOMAIN before :
              /\ Len(m[f]) = kBuildIDStringLength
              /\ before[f] # m[f]
              /\ after[f] = m[f]
         /\ \E f \in DOMAIN m \ DOMAIN before : f \in DOMAIN after
         /\ \E f \in DOMAIN before \ DOMAIN m : after[f] = before[f]

\* The MMAP and MMAP2 events of a filename before the last call, by index.
MmapsOf(f) ==
  {i \in DOMAIN store_before.events :
     IsMmapEvent(store_before.events[i]) /\ store_before.events[i].filename = f}

\* C15 as stated: a build ID entry created by injection takes its misc from
\* the first MMAP or MMAP2 event of its filename, and
\* PERF_RECORD_MISC_KERNEL when there is none.
C15_MiscFromFirstMmap ==
  store_call.op = "InjectBuildIDs" =>
    \A b \in NewBuildIds :
      b.misc = IF MmapsOf(b.filename) = {} THEN PERF_RECORD_MISC_KERNEL
               ELSE store_before.events[Min(MmapsOf(b.filename))].misc

\* C15: a build ID entry created by injection takes its misc from the last
\* MMAP or MMAP2 event of its filename in event order, and
\* PERF_RECORD_MISC_KERNEL when there is none.
C15_MiscFromLastMmap ==
  store_call.op = "InjectBuildIDs" =>
    \A b \in NewBuildIds :
      b.misc = IF MmapsOf(b.filename) = {} THEN PERF_RECORD_MISC_KERNEL
               ELSE store_before.events[Max(MmapsOf(b.filename))].misc

\* An entry has been created for a filename that two MMAP events with
\* different misc values map, and another for a filename without events.
C15_Witness ==
  /\ store_call.op = "InjectBuildIDs"
  /\ \E b \in NewBuildIds :
       /\ Cardinality(MmapsOf(b.filename)) = 2
       /\ store_before.events[1].misc # store_before.events[2].misc
       /\ b.misc = store_before.events[2].misc
  /\ \E b \in NewBuildIds :
       MmapsOf(b.filename) = {} /\ b.misc = PERF_RECORD_MISC_KERNEL

\* C16: after Localize(b2f) every build ID entry whose perfized build ID is
\* a key of b2f, and every MMAP or MMAP2 event that carried the old
\* filename of such an entry, carry the mapped new filename; the size of a
\* renamed event changes by the difference of the aligned filename lengths;
\* all other events and entries are unchanged.
C16_LocalizeByBuildId ==
  store_call.op = "Localize" =>
    LET b2f == store_call.arg
        old == store_before.build_ids
        new == store_proto.build_ids
        hits == LocalizedEntries(old, b2f)
        target(i) == b2f[PerfizeBuildIDString(old[i].build_id_hash)]
        targets(f) == {target(i) : i \in {j \in hits : old[j].filename = f}}
    IN  /\ Len(new) = Len(old)
        /\ \A i \in DOMAIN old :
             new[i] = IF i \in hits THEN [old[i] EXCEPT !.filename = target(i)]
                      ELSE old[i]
        /\ Len(store_proto.events) = Len(store_before.events)
        /\ \A k \in DOMAIN store_before.events :
             LET e == store_before.events[k]
                 e2 == store_proto.events[k]
             IN  IF IsMmapEvent(e) /\ targets(e.filename) # {}
                 THEN /\ e2.filename \in targets(e.filename)
                      /\ e2.size - GetUint64AlignedStringLength(Len(e2.filename))
                           = e.size - GetUint64AlignedStringLength(Len(e.filename))
                      /\ e2 = [e EXCEPT !.filename = e2.filename, !.size = e2.size]
                 ELSE e2 = e

----------------------------------------------------------------------------
(* Properties of SpecLayout *)

LayoutSections ==
  {layout_file.attrs, layout_file.data, layout_file.event_types}
    \cup Range(layout_file.features)

\* offset + size of a section does not fit in a word.
Wraps(section) == section.offset + section.size >= 2 ^ kWordBits

\* C19: a read in normal mode succeeds only if each of the attrs, data and
\* event_types sections and every feature section has offset + size within
\* the buffer; a section whose offset + size wraps around is rejected too.
C19_SectionBounds ==
  layout_read.done /\ layout_read.ok =>
    \A section \in LayoutSections :
      /\ section.offset + section.size <= layout_file.size
      /\ ~Wraps(section)

\* A read has been refused although the wrapped sum of offset and size of
\* one of its sections is within the buffer, and so is its offset.
C19_Witness ==
  /\ layout_read.done /\ ~layout_read.ok
  /\ \E section \in LayoutSections :
       /\ Wraps(section)
       /\ section.offset > 0
       /\ section.offset <= layout_file.size
       /\ U64(section.offset + section.size) <= layout_file.size
  /\ \A section \in LayoutSections :
       Wraps(section) \/ section.offset + section.size <= layout_file.size

\* A file whose sections all end at the end of the buffer has been read.
C19_WitnessRead ==
  /\ layout_read.done /\ layout_read.ok
  /\ layout_file.features # <<>>
  /\ \A section \in LayoutSections :
       section.size > 0 /\ section.offset + section.size = layout_file.size

\* C20: ReadDataSection stops successfully exactly when the bytes consumed
\* equal data.size, never reads an event header at or beyond
\* data.offset + data.size, and fails without reading the following bytes
\* when an event is larger than what remains of the data section.
C20_DataSectionConsumption ==
  layout_read.read_data_section =>
    LET end == layout_file.data.offset + layout_file.data.size
    IN  /\ layout_read.ok <=> layout_read.tell = end
        /\ \A pos \in layout_read.header_positions : pos < end
        /\ layout_read.tell <= end

----------------------------------------------------------------------------
(* Properties of SpecPiped *)

\* The last step read a record of this type.
LastRecordIs(type) == pipe_pc = "reading" /\ pipe_record.type = type

WithIds(attrs) == { i \in 1..Len(attrs) : attrs[i].ids # <<>> }

\* The attr repeats the first id of a registered attr, or, having no ids,
\* the config of a registered attr.
AlreadyRegistered(attr, attrs) ==
  IF attr.ids # <<>>
  THEN \E i \in WithIds(attrs) : attrs[i].ids[1] = attr.ids[1]
  ELSE \E i \in 1..Len(attrs) : attrs[i].config = attr.config

UniqueFirstIds(attrs) ==
  \A i, j \in WithIds(attrs) : attrs[i].ids[1] = attrs[j].ids[1] => i = j

\* C21: a piped HEADER_ATTR record is dropped when it has ids and its first
\* id is the first id of a registered attribute, or has no ids and its config
\* is the config of a registered attribute; otherwise it is registered.  So
\* HEADER_ATTR records never make two registered attributes with ids share a
\* first id.
C21_AttrDedup ==
  (LastRecordIs("PERF_RECORD_HEADER_ATTR") /\ pipe_reader.ok) =>
    /\ pipe_reader.proto_.file_attrs =
         IF AlreadyRegistered(pipe_record.attr, pipe_before.proto_.file_attrs)
         THEN pipe_before.proto_.file_attrs
         ELSE Append(pipe_before.proto_.file_attrs, pipe_record.attr)
    /\ UniqueFirstIds(pipe_before.proto_.file_attrs)
         => UniqueFirstIds(pipe_reader.proto_.file_attrs)

\* Two attributes are registered and a third one, whose first id is
\* registered already but whose config is not, has been dropped.
C21_Witness ==
  /\ LastRecordIs("PERF_RECORD_HEADER_ATTR")
  /\ pipe_reader.ok
  /\ Len(pipe_before.proto_.file_attrs) = 2
  /\ pipe_record.attr.ids # <<>>
  /\ \A i \in 1..2 : pipe_before.proto_.file_attrs[i].config # pipe_record.attr.config
  /\ pipe_reader.proto_.file_attrs = pipe_before.proto_.file_attrs

\* The last step read an MMAP2 record that carries a build id.
LastIsMmap2WithBuildId ==
  /\ LastRecordIs("PERF_RECORD_MMAP2")
  /\ "MMAP_BUILD_ID" \in pipe_record.misc

\* C24: an MMAP2 record that carries a build id longer than kMaxBuildIdSize
\* makes the read fail, whether or not its filename was seen before; of the
\* others, the first record of a filename adds one build id entry with the
\* build id of that record and the later ones add nothing.
C24_BuildIdPerFilename ==
  LastIsMmap2WithBuildId =>
    IF pipe_record.build_id_size > kMaxBuildIdSize THEN ~pipe_reader.ok
    ELSE pipe_reader.ok =>
           pipe_reader.proto_.build_ids =
             IF pipe_record.filename \in pipe_before.filenames_with_build_id_
             THEN pipe_before.proto_.build_ids
             ELSE Append(pipe_before.proto_.build_ids,
                         [filename |-> pipe_record.filename,
                          build_id |-> pipe_record.build_id,
                          misc |-> pipe_record.misc])

\* The same for readers that serialize MMAP2 events, and records that are
\* not skipped as zero-length kernel mappings.
C24_WhenSerialized ==
  (/\ "PERF_RECORD_MMAP2" \notin pipe_reader.event_types_to_skip_when_serializing_
   /\ "KERNEL" \notin pipe_record.misc) => C24_BuildIdPerFilename

\* C22: when an AUXTRACE event with trace size S has been read, also by a
\* reader told not to serialize AUXTRACE events, the S bytes after the event
\* are consumed, so the reader stands at the end of the record plus S, and S
\* is part of the size the read reports to the loop over the data section.
C22_AuxtraceTraceData ==
  (LastRecordIs("PERF_RECORD_AUXTRACE") /\ pipe_reader.ok) =>
    /\ pipe_reader.tell =
         pipe_before.tell + pipe_record.size + pipe_record.trace_size
    /\ pipe_reader.read_size =
         pipe_record.size - kEventHeaderSize + pipe_record.trace_size

\* The same for readers that serialize AUXTRACE events.
C22_WhenSerialized ==
  "PERF_RECORD_AUXTRACE" \notin pipe_reader.event_types_to_skip_when_serializing_
    => C22_AuxtraceTraceData

\* An AUXTRACE event with trace data has been read and serialized.
C22_SerializedWitness ==
  /\ LastRecordIs("PERF_RECORD_AUXTRACE")
  /\ pipe_reader.ok
  /\ pipe_record.trace_size > 0
  /\ pipe_reader.proto_.events # pipe_before.proto_.events

\* C27: when a piped stream has been read and the HEADER_EVENT_DESC bit is
\* set, there are at least as many event types as attributes and the id of
\* the i-th event type is the config of the i-th attribute.
C27_EventDescAligned ==
  (/\ pipe_pc = "done"
   /\ pipe_reader.ok
   /\ HEADER_EVENT_DESC \in pipe_reader.proto_.metadata_mask) =>
    /\ Len(pipe_reader.proto_.event_types) >= Len(pipe_reader.proto_.file_attrs)
    /\ \A i \in 1..Len(pipe_reader.proto_.file_attrs) :
         pipe_reader.proto_.event_types[i].id =
           pipe_reader.proto_.file_attrs[i].config

----------------------------------------------------------------------------
(* Properties of SpecAttrBytes *)

\* C25: the i-th attr of the attrs section, counted from 0, is read at
\* attrs.offset + i * header.attr_size, whatever the size fields of the attrs.
C25_AttrStride ==
  at_starts.done =>
    \A i \in 1..Len(at_starts.starts) :
      at_starts.starts[i] = at_table.attrs.offset + (i - 1) * at_table.attr_size

\* Where the size field of every attr is header.attr_size less the
\* perf_file_section, the attrs are read at the stride.
C25_WhenSizesAgree ==
  (\A i \in 1..Len(at_starts.starts) :
      at_table.sizes[i] + kFileSectionWords = at_table.attr_size)
    => C25_AttrStride

\* C26: a HEADER_ATTR record with a payload of P words is not read beyond its
\* end; an attr whose size field exceeds P or is below one word is rejected
\* before the number of ids is computed; the number of ids is P less the size
\* of the attr, without wrapping.
C26_AttrBlockBounds ==
  at_result.done =>
    /\ at_result.tell <= at_block.size
    /\ ~at_result.overrun
    /\ (at_block.attr_size > at_block.size \/ at_block.attr_size < 1)
         => (~at_result.ok /\ at_result.num_ids = -1)
    /\ at_result.num_ids # -1
         => at_result.num_ids = at_block.size - at_block.attr_size

\* For records whose attr fits in the payload, the record is read to its end.
C26_WhenAttrFits ==
  (at_block.attr_size \in 1..at_block.size) =>
    (C26_AttrBlockBounds /\ (at_result.done => at_result.tell = at_block.size))

----------------------------------------------------------------------------
(* Properties of SpecReader: the feature mask *)

\* C29: when a cross-endian file in normal mode has been read, the metadata
\* mask of the reader is the first feature word of the file with its bytes
\* swapped into host order, not the word as it is stored in the file.
C29_CrossEndianMask ==
  (/\ reader_pc = "read"
   /\ reader.ok
   /\ reader.is_cross_endian_
   /\ reader.mode = "normal") =>
    reader.proto_.metadata_mask = HostOrderFeatures(bytes.adds_features)

\* A cross-endian file whose first feature word has a bit set has been read.
C29_CrossEndianRead ==
  /\ reader_pc = "read"
  /\ reader.ok
  /\ reader.is_cross_endian_
  /\ reader.mode = "normal"
  /\ HostOrderFeatures(bytes.adds_features) # {}

----------------------------------------------------------------------------
(* Properties of SpecAttrProto *)

\* C30: the serialized attr has the sampling value in sample_freq exactly
\* when freq is set in the attr, and in sample_period otherwise; the
\* deserialized attr has the value of the field that the freq flag of the
\* proto selects.
C30_FreqSelectsField ==
  /\ ap_pc \in {"serialized", "deserialized"} =>
       /\ ap_proto.freq = ap_attr.freq
       /\ ap_proto.sample_freq = IF ap_attr.freq THEN ap_attr.sample_period ELSE 0
       /\ ap_proto.sample_period = IF ap_attr.freq THEN 0 ELSE ap_attr.sample_period
  /\ ap_pc \in {"deserialized", "deserialized_stored"} =>
       /\ ap_attr2.freq = ap_proto.freq
       /\ ap_attr2.sample_period =
            IF ap_proto.freq THEN ap_proto.sample_freq ELSE ap_proto.sample_period

\* What the code keeps: an attr that is serialized into a new proto and
\* deserialized again is the same attr.
C30_RoundTrip ==
  ap_pc = "deserialized" => ap_attr2 = ap_attr

----------------------------------------------------------------------------
(* Properties of SpecWriteData *)

\* C23: an event whose stored header.size differs from the size of its
\* content, as a COMM event whose comm string was replaced by one of another
\* aligned length, is written with the recomputed header.size and the write
\* succeeds.
C23_SizeRecomputed ==
  (wd_pc = "written" /\ wd_event.type # "NONE"
     /\ wd_event.size # GetEventSize(wd_event)) =>
    (wd_written.ok /\ wd_written.size = GetEventSize(wd_event))

\* What the code does: an event is written exactly when its stored
\* header.size is the size of its content, and then with that size.
C23_WrittenWhenSizesAgree ==
  (wd_pc = "written" /\ wd_event.type # "NONE") =>
    /\ wd_written.ok <=> wd_event.size = GetEventSize(wd_event)
    /\ wd_written.ok => wd_written.size = wd_event.size

----------------------------------------------------------------------------
(* Properties of SpecReader: the size of the output *)

\* C28: when what was read has been written, GetSize() is the number of
\* bytes the writer has written: the writer does not run over the vector of
\* GetSize() bytes and leaves none of its bytes unwritten.
C28_OutputSize ==
  (reader_pc \in {"written", "reread"} /\ written.ok) =>
    written.tell = written.size

\* The writer does not run over the vector.
C28_NoOverrun ==
  (reader_pc \in {"written", "reread"} /\ written.ok) =>
    written.tell <= written.size

====
